---- MODULE Spec2Model ----
(***************************************************************************)
(* State-machine model of the visa slot alert bot (src/bot.py): the        *)
(* per-subscriber monitor loop (AlertSystem.run_alert_loop / _check_slots),*)
(* the registry of loop tasks (UserDataManager) and the command handlers   *)
(* that start and stop loops (start_alerts_command, stop_command).         *)
(*                                                                         *)
(* Python strings on which the code computes (strip, upper, endswith,      *)
(* substring, concatenation) are sequences of one-character strings.       *)
(* Strings that are only compared or stored are TLA+ strings.              *)
(*                                                                         *)
(* Every coroutine is cut at its real suspension points (awaits that give  *)
(* control back to the event loop); the code between two suspension points *)
(* is one atomic action, as it is on asyncio's single thread.  The lock of *)
(* UserDataManager is never held across an await, so acquiring it never    *)
(* suspends and its critical sections are parts of those atomic actions.   *)
(***************************************************************************)
EXTENDS Integers, Sequences, FiniteSets, TLC

----------------------------------------------------------------------------
(* Bounds of the model *)

MaxTasks == 2
MaxHandlers == 3
MaxCycles == 4
MaxDedupCycles == 3
MaxFilterSlots == 3
MaxSendCycles == 2
MaxCancelCycles == 2
MaxFaultCycles == 2
MaxRunCycles == 2

(* Program constants *)

MAX_RETRIES == 3
RETRY_DELAY == 5
RetryAfterDefault == 60
MinHtmlLength == 100
MinColumns == 5
HistoryLimit == 50
AltSummaryLimit == 5

(* chat ids of the subscribers *)
Chats == {1, 2}
Tasks == 1 .. MaxTasks
Handlers == 1 .. MaxHandlers

(* Python's None, for each type it stands in for *)
None == <<"None">>          \* Optional[str]: a sequence that is no string
NoneList == <<None>>        \* Optional[List[str]]
NoneInt == -1               \* Optional[int]
Pending == "pending"        \* a handler that has not decided yet

----------------------------------------------------------------------------
(* Strings as character sequences *)

sALL == <<"A","L","L">>
sMUMBAI == <<"M","U","M","B","A","I">>
sVAC == <<"V","A","C">>
sCONSULAR == <<"C","O","N","S","U","L","A","R">>
sMUMBAI_VAC == <<"M","U","M","B","A","I"," ","V","A","C">>
sMUMBAI_CONSULAR == <<"M","U","M","B","A","I"," ","C","O","N","S","U","L","A","R">>
sCHENNAI_VAC == <<"C","H","E","N","N","A","I"," ","V","A","C">>
sB1 == <<"B","1">>
sB2 == <<"B","2">>
sB1B2 == <<"B","1","/","B","2">>
sb1b2_padded == <<" ","b","1","/","b","2"," ">>
sH1B == <<"H","1","B">>
sNA == <<"N","/","A">>
sEmpty == << >>
sNoAppointments ==
  <<"N","o"," ","A","p","p","o","i","n","t","m","e","n","t","s"," ",
    "A","v","a","i","l","a","b","l","e">>
s2025 == <<"2","0","2","5">>
s2026 == <<"2","0","2","6">>
sDate2025 == <<"2","0","2","5","-","0","6","-","0","1">>
sDate2025b == <<"2","0","2","5","-","0","7","-","1","0">>
sDate2026 == <<"2","0","2","6","-","0","1","-","0","5">>
sZero == <<"0">>
sUpdated1 == <<"1","0",":","0","0">>
sUpdated2 == <<"0","9",":","0","0">>
sUpdated3 == <<"0","8",":","0","0">>
sb1b2 == <<"b","1","/","b","2">>
sUnderscore == <<"_">>
sSpace == <<" ">>

(* str.upper() on the characters the model uses *)
LowerLetters ==
  <<"a","b","c","d","e","f","g","h","i","j","k","l","m",
    "n","o","p","q","r","s","t","u","v","w","x","y","z">>

UpperLetters ==
  <<"A","B","C","D","E","F","G","H","I","J","K","L","M",
    "N","O","P","Q","R","S","T","U","V","W","X","Y","Z">>

(* str.upper() on one character: the ASCII lower-case letters change *)
UpperChar(c) ==
  IF \E i \in 1 .. 26 : LowerLetters[i] = c
  THEN UpperLetters[CHOOSE i \in 1 .. 26 : LowerLetters[i] = c]
  ELSE c

Upper(s) == [i \in 1 .. Len(s) |-> UpperChar(s[i])]

(* the white space int() skips around a number: space, tab, line feed,
   carriage return, form feed and vertical tab *)
IntWhiteSpace == {" ", "\t", "\n", "\r", "\f", ""}

(* the ASCII white space str.strip() removes: these six and the four
   separator control characters 28 to 31 *)
WhiteSpace == IntWhiteSpace \cup {"", "", "", ""}

IsSpace(c) == c \in WhiteSpace

RECURSIVE LStrip(_)
LStrip(s) == IF s # << >> /\ IsSpace(Head(s)) THEN LStrip(Tail(s)) ELSE s

RECURSIVE RStrip(_)
RStrip(s) ==
  IF s # << >> /\ IsSpace(s[Len(s)]) THEN RStrip(SubSeq(s, 1, Len(s) - 1)) ELSE s

(* str.strip() *)
Strip(s) == RStrip(LStrip(s))

(* str.endswith(suffix) *)
EndsWith(s, suffix) ==
  /\ Len(suffix) <= Len(s)
  /\ SubSeq(s, Len(s) - Len(suffix) + 1, Len(s)) = suffix

(* "sub in s" on strings *)
Contains(s, sub) ==
  \E i \in 1 .. (Len(s) - Len(sub) + 1) : SubSeq(s, i, i + Len(sub) - 1) = sub

(* seq[-n:] *)
LastN(seq, n) ==
  IF Len(seq) <= n THEN seq ELSE SubSeq(seq, Len(seq) - n + 1, Len(seq))

(* seq[:n] *)
FirstN(seq, n) == IF Len(seq) <= n THEN seq ELSE SubSeq(seq, 1, n)

InSeq(x, seq) == \E i \in 1 .. Len(seq) : seq[i] = x

----------------------------------------------------------------------------
(* VisaSlot *)

VisaSlot(loc, visa, updated, date, avail) ==
  [location |-> loc, visa_type |-> visa, last_updated |-> updated,
   earliest_date |-> date, slots_available |-> avail]

is_available(slot) ==
  /\ slot.slots_available # sZero
  /\ slot.earliest_date \notin {sNA, sEmpty, sNoAppointments}

(* UserPreferences *)

NewPreferences ==
  [visa_type |-> None, consulate_city |-> None, consulate_type |-> None,
   interval |-> NoneInt, year_filter |-> NoneList,
   no_slot_alert_sent |-> FALSE, last_notified_slots |-> << >>]

(* a JSON object without keys where a list of keys is expected *)
EmptyDict == << <<"{", "}">> >>

(* Python truthiness of an Optional[str] field *)
Truthy(v) == v # None /\ v # sEmpty

(* a variant that forgets the interval *)
is_complete_without_interval(p) ==
  /\ Truthy(p.visa_type)
  /\ Truthy(p.consulate_city)
  /\ Truthy(p.consulate_type)

is_complete(p) ==
  /\ Truthy(p.visa_type)
  /\ Truthy(p.consulate_city)
  /\ Truthy(p.consulate_type)
  /\ p.interval # NoneInt

get_full_consulate(p) ==
  IF Truthy(p.consulate_city) /\ Truthy(p.consulate_type)
  THEN p.consulate_city \o sSpace \o p.consulate_type
  ELSE <<"N","o","t"," ","s","e","t">>

----------------------------------------------------------------------------
(* Utilities *)

visa_mappings(user_pref) ==
  CASE user_pref = sB1 -> {sB1, sB1B2}
    [] user_pref = sB2 -> {sB2, sB1B2}
    [] user_pref = sB1B2 -> {sB1B2}
    [] user_pref = <<"F","-","1">> -> {<<"F","1">>, <<"F","1","/","F","2">>, <<"F","-","1">>}
    [] user_pref = <<"H","-","1","B">> ->
         {sH1B, <<"H","-","1","B">>, <<"H","1">>, <<"H","-","1">>}
    [] user_pref = <<"J","-","1">> -> {<<"J","1">>, <<"J","-","1">>}
    [] user_pref = <<"L","-","1">> -> {<<"L","1">>, <<"L","-","1">>}
    [] user_pref = <<"O","-","1">> -> {<<"O","1">>, <<"O","-","1">>}
    [] OTHER -> {}

HasMapping(user_pref) ==
  user_pref \in {sB1, sB2, sB1B2, <<"F","-","1">>, <<"H","-","1","B">>,
                 <<"J","-","1">>, <<"L","-","1">>, <<"O","-","1">>}

visa_matches_site(user_pref, site_visa) ==
  LET u == Strip(Upper(user_pref))
      s == Strip(Upper(site_visa))
  IN IF HasMapping(u) THEN s \in visa_mappings(u) ELSE u = s

year_matches(date_str, year_filter) ==
  IF year_filter = NoneList \/ year_filter = << >> \/ date_str \in {sNA, sEmpty, None}
  THEN TRUE
  ELSE \E i \in 1 .. Len(year_filter) : Contains(date_str, year_filter[i])

----------------------------------------------------------------------------
(* SlotFilter.filter_slots *)

(* a variant that looks at the consulate type only, whatever the city *)
InPreferredBucket_type_only(slot, p) ==
  EndsWith(Strip(slot.location), p.consulate_type)

InPreferredBucket(slot, p) ==
  IF p.consulate_city = sALL
  THEN EndsWith(Strip(slot.location), p.consulate_type)
  ELSE slot.location = get_full_consulate(p)

matching_preference(all_slots, p) ==
  LET Keep(s) == visa_matches_site(p.visa_type, s.visa_type) /\ InPreferredBucket(s, p)
  IN SelectSeq(all_slots, Keep)

(* a variant that sends every slot outside the preferred bucket to the
   alternatives, whatever its visa type *)
other_locations_any_visa(all_slots, p) ==
  LET Keep(s) == ~InPreferredBucket(s, p)
  IN SelectSeq(all_slots, Keep)

other_locations(all_slots, p) ==
  LET Keep(s) == visa_matches_site(p.visa_type, s.visa_type) /\ ~InPreferredBucket(s, p)
  IN SelectSeq(all_slots, Keep)

(* a variant without the year filter *)
IsOpen_any_year(slot, p) == is_available(slot)

IsOpen(slot, p) == is_available(slot) /\ year_matches(slot.earliest_date, p.year_filter)

filter_slots(all_slots, p) ==
  LET Open(s) == IsOpen(s, p)
  IN [matching_open |-> SelectSeq(matching_preference(all_slots, p), Open),
      other_open |-> SelectSeq(other_locations(all_slots, p), Open)]

----------------------------------------------------------------------------
(* Upstream rows and pages (the lists fetch_slots returns) *)

Row_MumbaiVac == VisaSlot(sMUMBAI_VAC, sB1B2, sUpdated1, sDate2025, <<"3">>)
Row_ChennaiVacNone == VisaSlot(sCHENNAI_VAC, sB1B2, sUpdated1, sNA, sZero)
Row_MumbaiConsular == VisaSlot(sMUMBAI_CONSULAR, sb1b2, sUpdated2, sDate2026, <<"2">>)
Row_ChennaiVac == VisaSlot(sCHENNAI_VAC, sB1, sUpdated3, sDate2025b, <<"1">>)
Row_OtherVisa == VisaSlot(sMUMBAI_VAC, sH1B, sUpdated3, sDate2025, <<"4">>)

PageEmpty == << >>
PageA == <<Row_MumbaiVac, Row_ChennaiVacNone>>
PageNoneOpen == <<Row_ChennaiVacNone, Row_OtherVisa>>
PageConsular == <<Row_MumbaiConsular>>
PageTwoVac == <<Row_ChennaiVac, Row_MumbaiVac>>

PagesBasic == {PageEmpty, PageA}

(* rows that differ in their earliest date only: row i of a long table *)
Digits == <<"0","1","2","3","4","5","6","7","8","9">>
TwoDigits(n) == <<Digits[(n \div 10) + 1], Digits[(n % 10) + 1]>>
DateOf(i) == <<"2","0","2","7","-">> \o TwoDigits(1 + (i \div 28)) \o <<"-">>
             \o TwoDigits(1 + (i % 28))
RowN(i) == VisaSlot(sMUMBAI_VAC, sB1, sUpdated3, DateOf(i), <<"1">>)

PageOne == <<RowN(0)>>
PageTwice == <<RowN(0), RowN(1), RowN(0)>>
PageFifty == [i \in 1 .. HistoryLimit |-> RowN(i)]
PagesDedup == {PageEmpty, PageOne, PageTwice, PageFifty}
PagesDeep == {PageEmpty, PageA, PageNoneOpen, PageConsular, PageTwoVac}

(* Menu options offered by the preference wizard (subsets of the menus) *)
VISA_TYPES == {sB1}
CITIES == {sALL, sMUMBAI}
CONSULATE_TYPES == {sCONSULAR, sVAC}
YEAR_FILTERS == {NoneList, <<s2025>>}
INTERVALS == {60}

MenuFull ==
  [visa |-> VISA_TYPES, city |-> CITIES, type |-> CONSULATE_TYPES,
   year |-> YEAR_FILTERS, interval |-> INTERVALS]

(* the buttons pressed while the registry is exercised *)
MenuBasic ==
  [visa |-> {sB1}, city |-> {sALL}, type |-> {sVAC},
   year |-> {NoneList}, interval |-> INTERVALS]

----------------------------------------------------------------------------
(* State *)

VARIABLES
  user_data,    \* UserDataManager._user_data: a function from the chats that
                \* have a record to their UserPreferences
  data_file,    \* data/user_data.json: whether it exists, whether its text
                \* is JSON, and the JSON object it holds (chat -> value)
  alert_tasks,  \* UserDataManager._alert_tasks: chat -> task id, 0 when no entry
  tasks,        \* the asyncio tasks running run_alert_loop
  handlers,     \* invocations of start_alerts_command / stop_command
  env,          \* what the environment does: the chats that send commands,
                \* the pages upstream serves, the wizard buttons pressed,
                \* whether the loops' cycles are recorded and how many run
  fetch,        \* one call of VisaSlotsScraper.fetch_slots: its attempt, the
                \* answers upstream gave, the sleeps it took, what it returned
  filtering,    \* one call of SlotFilter.filter_slots: its arguments, the two
                \* buckets of its for loop, the two lists it returns
  sending       \* one call of TelegramMessenger.send_message: its attempt,
                \* what the transport did, the sleeps it took, what it returned

vars == <<user_data, data_file, alert_tasks, tasks, handlers, env, fetch, filtering, sending>>

NoTask ==
  [chat |-> 0, pc |-> "unused", must_cancel |-> FALSE, session |-> "none",
   complete_at_start |-> FALSE, queue |-> << >>, is_new |-> FALSE, log |-> << >>]

NoHandler == [kind |-> "idle", chat |-> 0, pc |-> "idle", task |-> 0, result |-> Pending]

NoSlot == VisaSlot(None, None, None, None, None)

Msg(type, slot, is_new, listed, more) ==
  [type |-> type, slot |-> slot, is_new |-> is_new, listed |-> listed, more |-> more]

SlotAlert(slot, is_new) == Msg("slot_alert", slot, is_new, << >>, 0)
Notice(type) == Msg(type, NoSlot, FALSE, << >>, 0)
AlternativesSummary(other_slots) ==
  Msg("alternatives", NoSlot, FALSE, FirstN(other_slots, AltSummaryLimit),
      IF Len(other_slots) > AltSummaryLimit THEN Len(other_slots) - AltSummaryLimit ELSE 0)

CycleRecord(kind, matching, other, flag_before, msgs) ==
  [kind |-> kind, matching |-> matching, other |-> other,
   flag_before |-> flag_before, msgs |-> msgs,
   page |-> << >>, history_before |-> << >>]

----------------------------------------------------------------------------
(* UserDataPersistence / UserDataManager *)

NoRecords == [c \in {} |-> NewPreferences]

NoFile == [exists |-> FALSE, parses |-> FALSE, data |-> NoRecords]

(* a file whose text is not JSON (empty or cut short) *)
BrokenFile == [exists |-> TRUE, parses |-> FALSE, data |-> NoRecords]

(* UserPreferences.to_dict: the seven fields under their names *)
to_dict(p) ==
  [visa_type |-> p.visa_type, consulate_city |-> p.consulate_city,
   consulate_type |-> p.consulate_type, interval |-> p.interval,
   year_filter |-> p.year_filter, no_slot_alert_sent |-> p.no_slot_alert_sent,
   last_notified_slots |-> p.last_notified_slots]

(* a JSON value that is no object (null, a number, a string, a list) *)
NotAnObject == [not_an_object |-> TRUE]

IsObject(d) == "not_an_object" \notin DOMAIN d

(* dict.get(key, default) *)
Get(d, key, default) == IF key \in DOMAIN d THEN d[key] ELSE default

(* UserPreferences.from_dict: every field is optional, nothing is validated *)
from_dict(d) ==
  [visa_type |-> Get(d, "visa_type", None),
   consulate_city |-> Get(d, "consulate_city", None),
   consulate_type |-> Get(d, "consulate_type", None),
   interval |-> Get(d, "interval", NoneInt),
   year_filter |-> Get(d, "year_filter", NoneList),
   no_slot_alert_sent |-> Get(d, "no_slot_alert_sent", FALSE),
   last_notified_slots |-> Get(d, "last_notified_slots", << >>)]

(* save_user_data: the whole map is written, keyed by str(chat_id) *)
save_user_data(ud) ==
  [exists |-> TRUE, parses |-> TRUE, data |-> [c \in DOMAIN ud |-> to_dict(ud[c])]]

(* a variant that skips what it cannot convert *)
load_user_data_lenient(file) ==
  IF ~file.exists \/ ~file.parses THEN NoRecords
  ELSE [c \in {k \in DOMAIN file.data : IsObject(file.data[k])} |-> from_dict(file.data[c])]

(* load_user_data: no file gives no records; any exception (text that is
   not JSON, a value from_dict cannot read) gives no records at all *)
load_user_data(file) ==
  IF ~file.exists THEN NoRecords
  ELSE IF ~file.parses THEN NoRecords
  ELSE IF \E c \in DOMAIN file.data : ~IsObject(file.data[c]) THEN NoRecords
  ELSE [c \in DOMAIN file.data |-> from_dict(file.data[c])]

(* get_preferences: the record map after the call (a missing record is created) *)
get_preferences(ud, c) ==
  IF c \notin DOMAIN ud THEN ud @@ (c :> NewPreferences) ELSE ud

(* get_preferences saves only when it created the record *)
file_after_get(ud, file, c) ==
  IF c \notin DOMAIN ud THEN save_user_data(get_preferences(ud, c)) ELSE file

set_alert_task(reg, c, t) == [reg EXCEPT ![c] = t]

get_alert_task(reg, c) == reg[c]

(* a variant that clears the whole registry *)
remove_alert_task_all(reg, c) == [x \in DOMAIN reg |-> 0]

remove_alert_task(reg, c) == [reg EXCEPT ![c] = 0]

task_done(tk, t) == tk[t].pc = "done"

(* a variant that only asks whether the registered task is done *)
is_running_if_done(reg, tk, c) ==
  LET task == get_alert_task(reg, c)
  IN task # 0 /\ task_done(tk, task)

is_running_in(reg, tk, c) ==
  LET task == get_alert_task(reg, c)
  IN task # 0 /\ ~task_done(tk, task)

is_running(c) == is_running_in(alert_tasks, tasks, c)

----------------------------------------------------------------------------
(* VisaSlotsScraper._parse_html.  A page is its length in characters and its
   tables; a table is its rows (the header row first), a row the texts of its
   td cells. *)

Pad(text) == sSpace \o text \o sSpace

HeaderRow == << >>

CellsOf(slot) ==
  <<Pad(slot.location), slot.visa_type, Pad(slot.last_updated),
    slot.earliest_date, Pad(slot.slots_available)>>

RECURSIVE ParseRows(_)
ParseRows(rows) ==
  IF rows = << >> THEN << >>
  ELSE LET cols == Head(rows)
       IN (IF Len(cols) >= MinColumns
           THEN <<VisaSlot(Strip(cols[1]), Strip(cols[2]), Strip(cols[3]),
                           Strip(cols[4]), Strip(cols[5]))>>
           ELSE << >>) \o ParseRows(Tail(rows))

RECURSIVE ParseTables(_)
ParseTables(tables) ==
  IF tables = << >> THEN << >>
  ELSE ParseRows(IF Head(tables) = << >> THEN << >> ELSE Tail(Head(tables)))
       \o ParseTables(Tail(tables))

_parse_html(html) == IF html.tables = << >> THEN << >> ELSE ParseTables(html.tables)

NoHtml == [length |-> 0, tables |-> << >>]
HtmlA ==
  [length |-> 4000,
   tables |-> <<(<<HeaderRow, CellsOf(Row_MumbaiVac), CellsOf(Row_ChennaiVacNone)>>)>>]
HtmlTwoTables ==
  [length |-> 5000,
   tables |-> <<(<<HeaderRow, <<sMUMBAI_CONSULAR, sb1b2_padded, sUpdated2, sDate2026, <<"2">>>>>>),
                (<<HeaderRow, <<sCHENNAI_VAC, sB1, sUpdated3>>,
                   CellsOf(Row_ChennaiVac) \o <<sEmpty>>>>)>>]
HtmlNoTables == [length |-> 4000, tables |-> << >>]
HtmlHeaderOnly == [length |-> 300, tables |-> <<(<<HeaderRow>>)>>]
HtmlShort == [length |-> 40, tables |-> << >>]
HtmlShortRows == [length |-> 99, tables |-> <<(<<HeaderRow, CellsOf(Row_ChennaiVac)>>)>>]
(* an indented table: line breaks and tabs around the cell texts *)
Indent(text) == <<"\n", " ">> \o text \o <<"\n">>
HtmlIndented ==
  [length |-> 4200,
   tables |-> <<(<<HeaderRow,
                   <<Indent(Row_MumbaiVac.location), <<"\t">> \o Row_MumbaiVac.visa_type,
                     <<"", "">> \o Row_MumbaiVac.last_updated \o <<"">>,
                     Row_MumbaiVac.earliest_date \o <<"\r", "\n">>,
                     Indent(Row_MumbaiVac.slots_available)>>>>)>>]
HtmlPages ==
  {HtmlA, HtmlTwoTables, HtmlNoTables, HtmlHeaderOnly, HtmlShort, HtmlShortRows,
   HtmlIndented}

(* What upstream does to one request: the request raises, or a response
   arrives with its status, its Retry-After header and its body. *)
Raises(kind) == [kind |-> kind, status |-> 0, retry_after |-> None, html |-> NoHtml]
Response(status, retry_after, html) ==
  [kind |-> "response", status |-> status, retry_after |-> retry_after, html |-> html]

RetryAfterHeaders ==
  {None, <<"7">>, <<"1","2","0">>, <<"W","e","d",","," ","2","1">>,
   <<" ","7"," ">>, <<"+","7">>, <<"-","5">>, <<"1","_","0">>, <<"_","7">>, << >>,
   <<"7","">>, <<"","7">>}

Answers ==
  {Raises("timeout"), Raises("client_error"), Raises("error")}
  \cup {Response(st, h, NoHtml) : st \in {403, 404, 429, 500, 503}, h \in RetryAfterHeaders}
  \cup {Response(200, None, html) : html \in HtmlPages}

(* int(text) on a header value: white space around the text is dropped, a
   sign may lead, single underscores may stand between digits *)
IsDigit(ch) == \E d \in 1 .. 10 : Digits[d] = ch

DigitValue(ch) == (CHOOSE d \in 1 .. 10 : Digits[d] = ch) - 1

(* the text without the white space int() skips at its two ends *)
IntStrip(s) ==
  LET kept == {i \in 1 .. Len(s) : s[i] \notin IntWhiteSpace}
  IN IF kept = {} THEN << >>
     ELSE SubSeq(s, CHOOSE i \in kept : \A j \in kept : i <= j,
                    CHOOSE i \in kept : \A j \in kept : i >= j)

IntBody(text) ==
  LET t == IntStrip(text)
  IN IF t # << >> /\ Head(t) \in {"+", "-"} THEN Tail(t) ELSE t

IntSign(text) ==
  LET t == IntStrip(text)
  IN IF t # << >> /\ Head(t) = "-" THEN -1 ELSE 1

(* int(text) returns; otherwise it raises ValueError *)
IsDigits(text) ==
  LET b == IntBody(text)
  IN /\ b # << >>
     /\ IsDigit(b[1])
     /\ IsDigit(b[Len(b)])
     /\ \A i \in 1 .. Len(b) :
          \/ IsDigit(b[i])
          \/ (b[i] = "_" /\ IsDigit(b[i - 1]) /\ IsDigit(b[i + 1]))

RECURSIVE DigitsValue(_)
DigitsValue(b) ==
  IF b = << >> THEN 0
  ELSE IF b[Len(b)] = "_" THEN DigitsValue(SubSeq(b, 1, Len(b) - 1))
  ELSE DigitsValue(SubSeq(b, 1, Len(b) - 1)) * 10 + DigitValue(b[Len(b)])

ToInt(text) == IntSign(text) * DigitsValue(IntBody(text))

(* VisaSlotsScraper.fetch_slots, one action per resumption *)

NoFetch == [pc |-> "idle", attempt |-> 0, answers |-> << >>, slept |-> << >>,
            result |-> << >>]

Backoff(f, seconds) == [f EXCEPT !.pc = "backoff", !.slept = Append(@, seconds)]

Return(f, slots) == [f EXCEPT !.pc = "returned", !.result = slots]

(* a variant whose except clauses let the exception out of fetch_slots *)
after_exception_raises(f) == [f EXCEPT !.pc = "raised"]

(* the except clauses: sleep unless this was the last attempt, after which
   the for loop is over and the empty list is returned *)
after_exception(f) ==
  IF f.attempt < MAX_RETRIES - 1
  THEN Backoff(f, RETRY_DELAY * (f.attempt + 1))
  ELSE Return(f, << >>)

(* the next iteration of "for attempt in range(MAX_RETRIES)", or its end.
   An iteration after the first evaluates random.uniform(1, 3) for its delay;
   the name random is bound only inside __aenter__ (a local import), so the
   expression raises NameError before any sleep or request, and the clause
   "except Exception" catches it. *)
Advance(f) ==
  IF f.attempt + 1 < MAX_RETRIES
  THEN after_exception([f EXCEPT !.attempt = @ + 1])
  ELSE Return(f, << >>)

(* a variant that repeats the request after the wait without counting it *)
after_rate_limit_uncounted(f, o) ==
  [f EXCEPT !.pc = "request", !.slept = Append(@, RetryAfterDefault)]

after_rate_limit(f, o) ==
  IF o.retry_after = None THEN Backoff(f, RetryAfterDefault)
  ELSE IF IsDigits(o.retry_after) THEN Backoff(f, ToInt(o.retry_after))
  ELSE after_exception(f)

(* a variant that gives up after the first answer *)
after_answer_no_retry(f, o) == Return(f, << >>)

(* the body of the try block from the answer to the request on *)
after_answer(f, o) ==
  IF o.kind # "response" THEN after_exception(f)
  ELSE IF o.status = 403
       THEN IF f.attempt < MAX_RETRIES - 1
            THEN Backoff(f, RETRY_DELAY * (f.attempt + 2) * 3)
            ELSE Return(f, << >>)
  ELSE IF o.status = 429 THEN after_rate_limit(f, o)
  ELSE IF o.status # 200
       THEN IF f.attempt < MAX_RETRIES - 1
            THEN Backoff(f, RETRY_DELAY * (f.attempt + 1))
            ELSE Return(f, << >>)
  ELSE IF o.html.length < MinHtmlLength /\ f.attempt < MAX_RETRIES - 1
       THEN Backoff(f, RETRY_DELAY * (f.attempt + 1))
  ELSE LET slots == _parse_html(o.html)
       IN IF slots = << >> /\ f.attempt < MAX_RETRIES - 1
          THEN Advance(f)
          ELSE Return(f, slots)

Others == <<user_data, data_file, alert_tasks, tasks, handlers, env>>

(* _check_slots calls fetch_slots: the first attempt sends its request at once *)
FetchCall ==
  /\ fetch.pc \in {"idle", "returned"}
  /\ fetch' = [NoFetch EXCEPT !.pc = "request"]
  /\ UNCHANGED <<Others, filtering, sending>>

(* upstream answers the request *)
FetchAnswered ==
  /\ fetch.pc = "request"
  /\ \E o \in Answers :
       fetch' = after_answer([fetch EXCEPT !.answers = Append(@, o)], o)
  /\ UNCHANGED <<Others, filtering, sending>>

(* the sleep after a failed attempt is over *)
FetchBackedOff ==
  /\ fetch.pc = "backoff"
  /\ fetch' = Advance(fetch)
  /\ UNCHANGED <<Others, filtering, sending>>

----------------------------------------------------------------------------
(* Calls of SlotFilter.filter_slots: the rows are rows as _parse_html returns
   them (stripped cell texts), the preferences complete records *)

Row_NoAppointments == VisaSlot(sMUMBAI_VAC, sB1, sUpdated1, sNoAppointments, <<"5">>)
Row_ZeroLeft == VisaSlot(sMUMBAI_VAC, sB1, sUpdated2, sDate2025, sZero)
Row_NoDate == VisaSlot(sMUMBAI_CONSULAR, sB1, sUpdated2, sEmpty, <<"2">>)

FilterRows ==
  {Row_MumbaiVac, Row_ChennaiVacNone, Row_MumbaiConsular, Row_ChennaiVac,
   Row_OtherVisa, Row_NoAppointments, Row_ZeroLeft, Row_NoDate}

FilterLists == UNION {[1 .. n -> FilterRows] : n \in 0 .. MaxFilterSlots}

sH_1B == <<"H","-","1","B">>
sh1b == <<"h","1","b">>

FilterPreferences ==
  {[NewPreferences EXCEPT !.visa_type = v, !.consulate_city = c,
                          !.consulate_type = t, !.year_filter = y, !.interval = 60] :
     v \in {sB1, sB1B2, sH_1B, sh1b}, c \in {sALL, sMUMBAI},
     t \in CONSULATE_TYPES, y \in {NoneList, << >>, <<s2025>>, <<s2026>>}}

NoFiltering ==
  [pc |-> "idle", all_slots |-> << >>, preferences |-> NewPreferences,
   matching_preference |-> << >>, other_locations |-> << >>,
   matching_open |-> << >>, other_open |-> << >>]

(* the for loop over all_slots has filled the two buckets *)
FilterCall ==
  /\ filtering.pc = "idle"
  /\ \E all_slots \in FilterLists, p \in FilterPreferences :
       filtering' = [NoFiltering EXCEPT
                       !.pc = "bucketed", !.all_slots = all_slots, !.preferences = p,
                       !.matching_preference = matching_preference(all_slots, p),
                       !.other_locations = other_locations(all_slots, p)]
  /\ UNCHANGED <<Others, fetch, sending>>

(* the two comprehensions, and the return *)
FilterReturn ==
  /\ filtering.pc = "bucketed"
  /\ LET out == filter_slots(filtering.all_slots, filtering.preferences)
     IN filtering' = [filtering EXCEPT !.pc = "returned",
                                       !.matching_open = out.matching_open,
                                       !.other_open = out.other_open]
  /\ UNCHANGED <<Others, fetch, sending>>

(* the caller has taken the two lists *)
FilterDone ==
  /\ filtering.pc = "returned"
  /\ filtering' = NoFiltering
  /\ UNCHANGED <<Others, fetch, sending>>

----------------------------------------------------------------------------
(* TelegramMessenger.send_message, one action per resumption *)

(* what the transport does to one delivery attempt: the message is
   delivered, or bot.send_message raises RetryAfter(n), TimedOut, another
   TelegramError, or some other exception *)
Transport(kind, seconds) == [kind |-> kind, retry_after |-> seconds]

TransportOutcomes ==
  {Transport("ok", 0), Transport("retry_after", 1), Transport("retry_after", 30),
   Transport("timed_out", 0), Transport("telegram_error", 0), Transport("error", 0)}

NoSending == [pc |-> "idle", attempt |-> 0, outcomes |-> << >>, slept |-> << >>,
              result |-> FALSE, failures |-> 0]

SendReturn(s, ok) == [s EXCEPT !.pc = "returned", !.result = ok]

SendSleep(s, seconds) == [s EXCEPT !.pc = "sleep", !.slept = Append(@, seconds)]

(* the next iteration of "for attempt in range(MAX_RETRIES)", or the
   "return False" after the loop *)
NextSendAttempt(s) ==
  IF s.attempt + 1 < MAX_RETRIES
  THEN [s EXCEPT !.attempt = @ + 1, !.pc = "attempt"]
  ELSE SendReturn(s, FALSE)

(* a variant whose last except clause lets the exception out *)
after_send_error_raises(s) == [s EXCEPT !.pc = "raised"]

(* except Exception *)
after_send_error(s) == SendReturn(s, FALSE)

(* the try block and its except clauses *)
after_send_attempt(s, o) ==
  CASE o.kind = "ok" -> SendReturn(s, TRUE)
    [] o.kind = "retry_after" -> SendSleep(s, o.retry_after)
    [] o.kind = "timed_out" ->
         IF s.attempt < MAX_RETRIES - 1 THEN SendSleep(s, RETRY_DELAY)
         ELSE NextSendAttempt(s)
    [] o.kind = "telegram_error" ->
         IF s.attempt < MAX_RETRIES - 1 THEN SendSleep(s, RETRY_DELAY)
         ELSE SendReturn(s, FALSE)
    [] OTHER -> after_send_error(s)

(* where a loop is inside a call of send_message *)
SendingPcs == {"starting", "notice", "alert", "error_report", "stopping"}

(* the loop that is inside send_message is resumed there only while no
   cancellation is pending for it: once task.cancel() has run, its next
   callback raises CancelledError at the await, whatever the transport
   answered and whether or not the sleep is over *)
SenderResumes ==
  \E t \in Tasks : tasks[t].pc \in SendingPcs /\ ~tasks[t].must_cancel

(* send_message is called by a loop: the first delivery attempt is made *)
SendCall ==
  /\ env.transport
  /\ sending.pc = "idle"
  /\ SenderResumes
  /\ sending' = [sending EXCEPT !.pc = "attempt"]
  /\ UNCHANGED <<Others, fetch, filtering>>

(* the transport answers the delivery attempt *)
SendAttempted ==
  /\ sending.pc = "attempt"
  /\ SenderResumes
  /\ \E o \in TransportOutcomes :
       sending' = after_send_attempt([sending EXCEPT !.outcomes = Append(@, o)], o)
  /\ UNCHANGED <<Others, fetch, filtering>>

(* the sleep of an except clause is over *)
SendSlept ==
  /\ sending.pc = "sleep"
  /\ SenderResumes
  /\ sending' = NextSendAttempt(sending)
  /\ UNCHANGED <<Others, fetch, filtering>>

(* the loop's await of send_message returns; where the transport is not
   modelled the send is one step of the loop *)
SendReturned == env.transport => sending.pc = "returned"

(* the loop takes up its work again: the call is over; the calls that
   returned False are counted *)
SendOver ==
  sending' = IF env.transport
             THEN [NoSending EXCEPT !.failures =
                     sending.failures + (IF sending.result THEN 0 ELSE 1)]
             ELSE sending

(* CancelledError is thrown into the loop: a call of send_message it was in
   is left at its await, without a result; no except clause of send_message
   catches it *)
SendCancelled ==
  sending' = IF env.transport
             THEN [NoSending EXCEPT !.failures = sending.failures]
             ELSE sending

(* a variant that gives up the cycle's remaining alerts when a send failed *)
pc_after_alert_checked(ok) == IF ok THEN "pacing" ELSE "sleeping"

(* the boolean send_slot_alert returns is not looked at *)
pc_after_alert(ok) == "pacing"

----------------------------------------------------------------------------
(* Initial states *)

InitCommon ==
  /\ data_file = NoFile
  /\ user_data = load_user_data(data_file)
  /\ alert_tasks = [c \in Chats |-> 0]
  /\ tasks = [t \in Tasks |-> NoTask]
  /\ handlers = [h \in Handlers |-> NoHandler]
  /\ fetch = NoFetch
  /\ filtering = NoFiltering
  /\ sending = NoSending

Init ==
  /\ InitCommon
  /\ env = [chats |-> {1}, pages |-> PagesBasic, cycles |-> 0, menu |-> MenuBasic,
            log |-> FALSE, transport |-> FALSE]

----------------------------------------------------------------------------
(* AlertSystem.run_alert_loop and _check_slots, one action per resumption *)

Prefs(t) == user_data[tasks[t].chat]

slot_key(slot) == slot.location \o sUnderscore \o slot.earliest_date

(* a variant that frames every alert as new *)
is_new_always(slot, p) == TRUE

is_new_key(slot, p) == ~InSeq(slot_key(slot), p.last_notified_slots)

(* from_dict validates nothing: the history is whatever JSON value the file
   holds.  "slot_key not in None" raises TypeError; "slot_key not in {}" is
   true and {}.append raises AttributeError *)
membership_raises(p) == p.last_notified_slots = NoneList

append_raises(p) == p.last_notified_slots = EmptyDict

(* a variant that remembers the newest key only *)
remember_key_newest_only(history, key) == <<key>>

(* a variant that never truncates *)
remember_key_unbounded(history, key) == Append(history, key)

(* last_notified_slots.append(slot_key); last_notified_slots[-50:] *)
remember_key(history, key) == LastN(Append(history, key), HistoryLimit)

(* the record of the loop's cycles and of the messages it sent in each is
   kept when env.log is set; the loop then runs env.cycles cycles *)
Logged(log, rec) == IF env.log THEN Append(log, rec) ELSE log

log_message(log, msg) ==
  IF env.log THEN [log EXCEPT ![Len(log)].msgs = Append(@, msg)] ELSE log

InTry == {"polling", "notice", "alert", "pacing", "error_report", "sleeping"}

(* first step of the task: get_preferences, then the "Monitoring Started" send *)
LoopStart(t) ==
  /\ tasks[t].pc = "created"
  /\ ~tasks[t].must_cancel
  /\ user_data' = get_preferences(user_data, tasks[t].chat)
  /\ data_file' = file_after_get(user_data, data_file, tasks[t].chat)
  /\ tasks' = [tasks EXCEPT ![t].pc = "starting"]
  /\ UNCHANGED <<alert_tasks, handlers, env, fetch, filtering, sending>>

(* the start notice was sent: __aenter__ opens the session, the first
   _check_slots calls fetch_slots *)
LoopOpen(t) ==
  /\ tasks[t].pc = "starting"
  /\ ~tasks[t].must_cancel
  /\ tasks' = [tasks EXCEPT ![t].pc = "polling", ![t].session = "open"]
  /\ UNCHANGED <<user_data, data_file, alert_tasks, handlers, env, fetch, filtering>>
  /\ SendReturned
  /\ SendOver

(* a variant that sends "could not fetch" whatever the flag says *)
NoDataBranchUngated(t, p) ==
  [task |-> [tasks[t] EXCEPT
               !.pc = "notice",
               !.log = Logged(@, CycleRecord("nodata", << >>, << >>,
                              p.no_slot_alert_sent, <<Notice("no_fetch")>>))],
   prefs |-> p]

(* the no-data branch of _check_slots *)
NoDataBranch(t, p) ==
  IF ~p.no_slot_alert_sent
  THEN [task |-> [tasks[t] EXCEPT
                    !.pc = "notice",
                    !.log = Logged(@, CycleRecord("nodata", << >>, << >>,
                                   p.no_slot_alert_sent, <<Notice("no_fetch")>>))],
        prefs |-> p]
  ELSE [task |-> [tasks[t] EXCEPT
                    !.pc = "sleeping",
                    !.log = Logged(@, CycleRecord("nodata", << >>, << >>,
                                   p.no_slot_alert_sent, << >>))],
        prefs |-> p]

(* the matching branch: the flag is reset and the first alert is sent *)
MatchingBranch(t, p, f) ==
  LET first == Head(f.matching_open)
      fresh == is_new_key(first, p)
  IN [task |-> [tasks[t] EXCEPT
                  !.pc = "alert",
                  !.queue = f.matching_open,
                  !.is_new = fresh,
                  !.log = Logged(@, CycleRecord("match", f.matching_open, f.other_open,
                                 p.no_slot_alert_sent, <<SlotAlert(first, fresh)>>))],
      prefs |-> [p EXCEPT !.no_slot_alert_sent = FALSE]]

(* a variant that sends the summary whatever the flag says *)
AlternativesBranchUngated(t, p, f) ==
  [task |-> [tasks[t] EXCEPT
               !.pc = "notice",
               !.log = Logged(@, CycleRecord("alts", << >>, f.other_open,
                              p.no_slot_alert_sent,
                              <<AlternativesSummary(f.other_open)>>))],
   prefs |-> p]

(* _send_alternative_locations up to its send *)
AlternativesBranch(t, p, f) ==
  IF p.no_slot_alert_sent
  THEN [task |-> [tasks[t] EXCEPT
                    !.pc = "sleeping",
                    !.log = Logged(@, CycleRecord("alts", << >>, f.other_open,
                                   p.no_slot_alert_sent, << >>))],
        prefs |-> p]
  ELSE [task |-> [tasks[t] EXCEPT
                    !.pc = "notice",
                    !.log = Logged(@, CycleRecord("alts", << >>, f.other_open,
                                   p.no_slot_alert_sent,
                                   <<AlternativesSummary(f.other_open)>>))],
        prefs |-> p]

(* _send_no_slots_message up to its send *)
NoSlotsBranch(t, p) ==
  IF ~p.no_slot_alert_sent
  THEN [task |-> [tasks[t] EXCEPT
                    !.pc = "notice",
                    !.log = Logged(@, CycleRecord("none", << >>, << >>,
                                   p.no_slot_alert_sent, <<Notice("no_slots")>>))],
        prefs |-> p]
  ELSE [task |-> [tasks[t] EXCEPT
                    !.pc = "sleeping",
                    !.log = Logged(@, CycleRecord("none", << >>, << >>,
                                   p.no_slot_alert_sent, << >>))],
        prefs |-> p]

(* the cycle's record also keeps the list fetch_slots returned and the
   history the cycle started with *)
with_inputs(r, all_slots, p) ==
  IF env.log
  THEN [r EXCEPT !.task.log[Len(r.task.log)] =
          [@ EXCEPT !.page = all_slots, !.history_before = p.last_notified_slots]]
  ELSE r

(* _check_slots from the return of fetch_slots to its next await (or its end) *)
check_slots_after_fetch(t, all_slots) ==
  LET p == Prefs(t)
      f == filter_slots(all_slots, p)
  IN with_inputs(IF all_slots = << >> THEN NoDataBranch(t, p)
                 ELSE IF f.matching_open # << >> THEN MatchingBranch(t, p, f)
                 ELSE IF f.other_open # << >> THEN AlternativesBranch(t, p, f)
                 ELSE NoSlotsBranch(t, p),
                 all_slots, p)

(* the for loop raises at its first slot: the matching list is not empty
   and the history is no container *)
raises_after_reset(t, all_slots) ==
  /\ filter_slots(all_slots, Prefs(t)).matching_open # << >>
  /\ membership_raises(Prefs(t))

LoopFetched(t) ==
  /\ tasks[t].pc = "polling"
  /\ ~tasks[t].must_cancel
  /\ \E all_slots \in env.pages :
       /\ ~raises_after_reset(t, all_slots)
       /\ LET r == check_slots_after_fetch(t, all_slots)
          IN /\ tasks' = [tasks EXCEPT ![t] = r.task]
             /\ user_data' = [user_data EXCEPT ![tasks[t].chat] = r.prefs]
  /\ UNCHANGED <<data_file, alert_tasks, handlers, env, fetch, filtering, sending>>

(* a variant in which the exception escapes the loop: the task ends through
   the finally clause *)
task_ends_on_exception(task, p) == [task EXCEPT !.pc = "stopping"]

(* an exception escapes _check_slots before anything of the cycle was
   recorded: it is caught in the loop, which sends the error report *)
task_after_exception(task, p) ==
  [task EXCEPT
     !.pc = "error_report",
     !.log = Logged(@, CycleRecord("error", << >>, << >>,
                    p.no_slot_alert_sent, <<Notice("error")>>))]

(* the exception is raised by the membership test of the first matching
   slot, after the flag was reset *)
raised_after_reset(t, all_slots) ==
  LET p == Prefs(t)
      f == filter_slots(all_slots, p)
  IN with_inputs(
       [task |-> [tasks[t] EXCEPT
                    !.pc = "error_report",
                    !.log = Logged(@, CycleRecord("error", f.matching_open, f.other_open,
                                   p.no_slot_alert_sent, <<Notice("error")>>))],
        prefs |-> [p EXCEPT !.no_slot_alert_sent = FALSE]],
       all_slots, p)

(* the exception is raised by append once the alert's send has returned:
   the locals of _check_slots are gone, the history is as it was *)
task_after_append_raised(task) ==
  [task EXCEPT
     !.pc = "error_report", !.queue = << >>, !.is_new = FALSE,
     !.log = log_message(@, Notice("error"))]

(* an exception escapes _check_slots and is caught by the loop's "except
   Exception", which sends the error report.  It is raised before the page is
   looked at (nothing is changed), by the membership test after the flag
   reset, or by append after an alert was sent. *)
LoopCycleRaised(t) ==
  /\ ~tasks[t].must_cancel
  /\ \/ /\ tasks[t].pc = "polling"
        /\ tasks' = [tasks EXCEPT ![t] = task_after_exception(tasks[t], Prefs(t))]
        /\ UNCHANGED <<user_data, sending>>
     \/ /\ tasks[t].pc = "polling"
        /\ \E all_slots \in env.pages :
             /\ raises_after_reset(t, all_slots)
             /\ LET r == raised_after_reset(t, all_slots)
                IN /\ tasks' = [tasks EXCEPT ![t] = r.task]
                   /\ user_data' = [user_data EXCEPT ![tasks[t].chat] = r.prefs]
        /\ UNCHANGED sending
     \/ /\ tasks[t].pc = "alert"
        /\ tasks[t].is_new
        /\ append_raises(Prefs(t))
        /\ tasks' = [tasks EXCEPT ![t] = task_after_append_raised(tasks[t])]
        /\ UNCHANGED user_data
        /\ SendReturned
        /\ SendOver
  /\ UNCHANGED <<data_file, alert_tasks, handlers, env, fetch, filtering>>

LoopErrorReported(t) ==
  /\ tasks[t].pc = "error_report"
  /\ ~tasks[t].must_cancel
  /\ tasks' = [tasks EXCEPT ![t].pc = "sleeping"]
  /\ UNCHANGED <<user_data, data_file, alert_tasks, handlers, env, fetch, filtering>>
  /\ SendReturned
  /\ SendOver

(* the "could not fetch" / alternatives / "no slots" send returned *)
(* a variant that forgets to set the flag *)
prefs_unchanged_after_notice(p) == p

(* a variant that also forgets the history *)
prefs_after_notice_forgets(p) ==
  [p EXCEPT !.no_slot_alert_sent = TRUE, !.last_notified_slots = << >>]

prefs_after_notice(p) == [p EXCEPT !.no_slot_alert_sent = TRUE]

LoopNoticeSent(t) ==
  /\ tasks[t].pc = "notice"
  /\ ~tasks[t].must_cancel
  /\ user_data' = [user_data EXCEPT ![tasks[t].chat] = prefs_after_notice(@)]
  /\ tasks' = [tasks EXCEPT ![t].pc = "sleeping"]
  /\ UNCHANGED <<data_file, alert_tasks, handlers, env, fetch, filtering>>
  /\ SendReturned
  /\ SendOver

(* send_slot_alert returned: the key is remembered if it was new *)
prefs_after_alert(p, slot, fresh) ==
  IF fresh
  THEN [p EXCEPT !.last_notified_slots = remember_key(@, slot_key(slot))]
  ELSE p

LoopAlertSent(t) ==
  /\ tasks[t].pc = "alert"
  /\ ~tasks[t].must_cancel
  /\ ~(tasks[t].is_new /\ append_raises(Prefs(t)))
  /\ user_data' = [user_data EXCEPT ![tasks[t].chat] =
                     prefs_after_alert(@, Head(tasks[t].queue), tasks[t].is_new)]
  /\ tasks' = [tasks EXCEPT ![t].pc = pc_after_alert(sending.result)]
  /\ UNCHANGED <<data_file, alert_tasks, handlers, env, fetch, filtering>>
  /\ SendReturned
  /\ SendOver

(* a variant that ends the cycle after the first alert *)
LoopPacedOnce(t) ==
  /\ tasks[t].pc = "pacing"
  /\ ~tasks[t].must_cancel
  /\ tasks' = [tasks EXCEPT ![t].pc = "sleeping", ![t].queue = << >>,
                            ![t].is_new = FALSE]
  /\ UNCHANGED <<user_data, data_file, alert_tasks, handlers, env, fetch, filtering, sending>>

(* the pacing sleep returned: next slot of the list, or the cycle is over *)
LoopPaced(t) ==
  /\ tasks[t].pc = "pacing"
  /\ ~tasks[t].must_cancel
  /\ LET rest == Tail(tasks[t].queue)
     IN IF rest = << >>
        THEN tasks' = [tasks EXCEPT ![t].pc = "sleeping", ![t].queue = << >>,
                                    ![t].is_new = FALSE]
        ELSE LET fresh == is_new_key(Head(rest), Prefs(t))
             IN tasks' = [tasks EXCEPT
                            ![t].pc = "alert",
                            ![t].queue = rest,
                            ![t].is_new = fresh,
                            ![t].log = log_message(@, SlotAlert(Head(rest), fresh))]
  /\ UNCHANGED <<user_data, data_file, alert_tasks, handlers, env, fetch, filtering, sending>>

(* the interval sleep returned: the next _check_slots calls fetch_slots *)
LoopWake(t) ==
  /\ tasks[t].pc = "sleeping"
  /\ ~tasks[t].must_cancel
  /\ env.log => Len(tasks[t].log) < env.cycles
  /\ tasks' = [tasks EXCEPT ![t].pc = "polling"]
  /\ UNCHANGED <<user_data, data_file, alert_tasks, handlers, env, fetch, filtering, sending>>

(* CancelledError raised at an await before the try block (or thrown into
   the coroutine before its first step): nothing of the loop's cleanup runs *)
LoopCancelledBeforeTry(t) ==
  /\ tasks[t].pc \in {"created", "starting"}
  /\ tasks[t].must_cancel
  /\ tasks' = [tasks EXCEPT ![t].pc = "done", ![t].must_cancel = FALSE]
  /\ SendCancelled
  /\ UNCHANGED <<user_data, data_file, alert_tasks, handlers, env, fetch, filtering>>

(* a variant in which a cancelled send_slot_alert still has its key
   remembered *)
LoopCancelledInTryRemembers(t) ==
  /\ tasks[t].pc \in InTry
  /\ tasks[t].must_cancel
  /\ tasks' = [tasks EXCEPT ![t].pc = "stopping", ![t].must_cancel = FALSE,
                            ![t].queue = << >>, ![t].is_new = FALSE]
  /\ user_data' = IF tasks[t].pc = "alert"
                  THEN [user_data EXCEPT ![tasks[t].chat] =
                          prefs_after_alert(@, Head(tasks[t].queue), tasks[t].is_new)]
                  ELSE user_data
  /\ SendCancelled
  /\ UNCHANGED <<data_file, alert_tasks, handlers, env, fetch, filtering>>

(* CancelledError raised at an await inside the try block: _check_slots is
   left (its locals are gone), the except clause sends "Monitoring Stopped" *)
LoopCancelledInTry(t) ==
  /\ tasks[t].pc \in InTry
  /\ tasks[t].must_cancel
  /\ tasks' = [tasks EXCEPT ![t].pc = "stopping", ![t].must_cancel = FALSE,
                            ![t].queue = << >>, ![t].is_new = FALSE]
  /\ SendCancelled
  /\ UNCHANGED <<user_data, data_file, alert_tasks, handlers, env, fetch, filtering>>

(* the finally clause, then __aexit__ up to its sleep *)
registry_after_finally(reg, c) == remove_alert_task(reg, c)

LoopFinally(t) ==
  /\ tasks[t].pc = "stopping"
  /\ alert_tasks' = registry_after_finally(alert_tasks, tasks[t].chat)
  /\ tasks' = [tasks EXCEPT ![t].pc = "closing", ![t].session = "closed",
                            ![t].must_cancel = FALSE]
  /\ UNCHANGED <<user_data, data_file, handlers, env, fetch, filtering>>

(* send_message returned from the stop notice: re-raise *)
LoopStopNoticeSent(t) ==
  /\ ~tasks[t].must_cancel
  /\ SendReturned
  /\ SendOver
  /\ LoopFinally(t)

(* a second cancellation arrives during the stop notice *)
LoopCancelledStopping(t) ==
  /\ tasks[t].must_cancel
  /\ SendCancelled
  /\ LoopFinally(t)

(* __aexit__'s sleep returned or was cancelled: the task is done *)
LoopClosed(t) ==
  /\ tasks[t].pc = "closing"
  /\ tasks' = [tasks EXCEPT ![t].pc = "done", ![t].must_cancel = FALSE]
  /\ UNCHANGED <<user_data, data_file, alert_tasks, handlers, env, fetch, filtering, sending>>

LoopStep(t) ==
  \/ LoopStart(t)
  \/ LoopOpen(t)
  \/ LoopFetched(t)
  \/ LoopCycleRaised(t)
  \/ LoopErrorReported(t)
  \/ LoopNoticeSent(t)
  \/ LoopAlertSent(t)
  \/ LoopPaced(t)
  \/ LoopWake(t)
  \/ LoopCancelledBeforeTry(t)
  \/ LoopCancelledInTry(t)
  \/ LoopStopNoticeSent(t)
  \/ LoopCancelledStopping(t)
  \/ LoopClosed(t)

----------------------------------------------------------------------------
(* Command handlers.  A handler's last reply_text (the answer to the user)
   reads and changes nothing: the handler is done when it is issued. *)

(* handlers are numbered in the order in which their commands arrive *)
NextHandler(h) ==
  /\ handlers[h].kind = "idle"
  /\ \A g \in Handlers : g < h => handlers[g].kind # "idle"

FreeTask(t) ==
  /\ tasks[t].pc = "unused"
  /\ \A u \in Tasks : u < t => tasks[u].pc # "unused"

(* start_alerts_command up to its first reply: the two checks *)
start_decision(ud, reg, tk, c) ==
  IF ~is_complete(get_preferences(ud, c)[c]) THEN "PreferencesIncomplete"
  ELSE IF is_running_in(reg, tk, c) THEN "AlreadyRunning"
  ELSE "Proceed"

StartBegin(h, c) ==
  /\ NextHandler(h)
  /\ user_data' = get_preferences(user_data, c)
  /\ data_file' = file_after_get(user_data, data_file, c)
  /\ LET d == start_decision(user_data, alert_tasks, tasks, c)
     IN handlers' = [handlers EXCEPT ![h] =
          IF d = "Proceed"
          THEN [kind |-> "start", chat |-> c, pc |-> "reply_summary",
                task |-> 0, result |-> Pending]
          ELSE [kind |-> "start", chat |-> c, pc |-> "done",
                task |-> 0, result |-> d]]
  /\ UNCHANGED <<alert_tasks, tasks, env, fetch, filtering, sending>>

(* the summary reply returned: create_task and set_alert_task *)
NewTask(c, p) ==
  [NoTask EXCEPT !.chat = c, !.pc = "created", !.complete_at_start = is_complete(p)]

StartSpawn(h) ==
  /\ handlers[h].kind = "start"
  /\ handlers[h].pc = "reply_summary"
  /\ \E t \in Tasks :
       /\ FreeTask(t)
       /\ tasks' = [tasks EXCEPT ![t] = NewTask(handlers[h].chat, user_data[handlers[h].chat])]
       /\ alert_tasks' = set_alert_task(alert_tasks, handlers[h].chat, t)
       /\ handlers' = [handlers EXCEPT ![h].pc = "done", ![h].task = t,
                                       ![h].result = "Started"]
  /\ UNCHANGED <<user_data, data_file, env, fetch, filtering, sending>>

(* stop_command up to its first await *)
(* a variant that does not look at task.done() *)
stop_finds_any_handle(reg, tk, c) == get_alert_task(reg, c) # 0

stop_finds_running(reg, tk, c) ==
  LET task == get_alert_task(reg, c)
  IN task # 0 /\ ~task_done(tk, task)

StopBegin(h, c) ==
  /\ NextHandler(h)
  /\ IF stop_finds_running(alert_tasks, tasks, c)
     THEN /\ tasks' = [tasks EXCEPT ![get_alert_task(alert_tasks, c)].must_cancel = TRUE]
          /\ handlers' = [handlers EXCEPT ![h] =
               [kind |-> "stop", chat |-> c, pc |-> "await_task",
                task |-> get_alert_task(alert_tasks, c), result |-> Pending]]
     ELSE /\ tasks' = tasks
          /\ handlers' = [handlers EXCEPT ![h] =
               [kind |-> "stop", chat |-> c, pc |-> "done",
                task |-> 0, result |-> "NotRunning"]]
  /\ UNCHANGED <<user_data, data_file, alert_tasks, env, fetch, filtering, sending>>

(* "await task" returns once the task is done; then remove_alert_task *)
(* a variant in which stop_command does not await the task *)
stop_resumes_at_once(tk, t) == TRUE

stop_may_resume(tk, t) == task_done(tk, t)

StopResume(h) ==
  /\ handlers[h].kind = "stop"
  /\ handlers[h].pc = "await_task"
  /\ stop_may_resume(tasks, handlers[h].task)
  /\ alert_tasks' = remove_alert_task(alert_tasks, handlers[h].chat)
  /\ handlers' = [handlers EXCEPT ![h].pc = "done", ![h].result = "Stopped"]
  /\ UNCHANGED <<user_data, data_file, tasks, env, fetch, filtering, sending>>

(* start_command, up to its reply: the subscriber's record is looked up, and
   created and saved when there is none *)
start_command(c) ==
  /\ user_data' = get_preferences(user_data, c)
  /\ data_file' = file_after_get(user_data, data_file, c)
  /\ UNCHANGED <<alert_tasks, tasks, handlers, env, fetch, filtering, sending>>

(* status_command: the same lookup; is_running and the reply change nothing *)
status_command(c) ==
  /\ user_data' = get_preferences(user_data, c)
  /\ data_file' = file_after_get(user_data, data_file, c)
  /\ UNCHANGED <<alert_tasks, tasks, handlers, env, fetch, filtering, sending>>

(* handle_callback on the "start_alerts" button: the lookup every callback
   begins with; start_alerts_command then awaits the query's answer before
   it does anything, so what follows is StartBegin *)
handle_callback_start_alerts(c) ==
  /\ user_data' = get_preferences(user_data, c)
  /\ data_file' = file_after_get(user_data, data_file, c)
  /\ UNCHANGED <<alert_tasks, tasks, handlers, env, fetch, filtering, sending>>

(* handle_callback: one wizard button sets one field of the record *)
SetVisa(c) ==
  /\ \E v \in env.menu.visa :
       user_data' = [get_preferences(user_data, c) EXCEPT ![c].visa_type = v]
  /\ data_file' = file_after_get(user_data, data_file, c)
  /\ UNCHANGED <<alert_tasks, tasks, handlers, env, fetch, filtering, sending>>

SetCity(c) ==
  /\ \E v \in env.menu.city :
       user_data' = [get_preferences(user_data, c) EXCEPT ![c].consulate_city = v]
  /\ data_file' = file_after_get(user_data, data_file, c)
  /\ UNCHANGED <<alert_tasks, tasks, handlers, env, fetch, filtering, sending>>

SetType(c) ==
  /\ \E v \in env.menu.type :
       user_data' = [get_preferences(user_data, c) EXCEPT ![c].consulate_type = v]
  /\ data_file' = file_after_get(user_data, data_file, c)
  /\ UNCHANGED <<alert_tasks, tasks, handlers, env, fetch, filtering, sending>>

SetYear(c) ==
  /\ \E v \in env.menu.year :
       user_data' = [get_preferences(user_data, c) EXCEPT ![c].year_filter = v]
  /\ data_file' = file_after_get(user_data, data_file, c)
  /\ UNCHANGED <<alert_tasks, tasks, handlers, env, fetch, filtering, sending>>

SetInterval(c) ==
  /\ \E v \in env.menu.interval :
       user_data' = [get_preferences(user_data, c) EXCEPT ![c].interval = v]
  /\ data_file' = file_after_get(user_data, data_file, c)
  /\ UNCHANGED <<alert_tasks, tasks, handlers, env, fetch, filtering, sending>>

----------------------------------------------------------------------------
(* The bot: commands arrive at any time, loops and handlers interleave at
   their awaits *)

Next ==
  \/ \E t \in Tasks : LoopStep(t)
  \/ \E h \in Handlers, c \in env.chats : StartBegin(h, c)
  \/ \E h \in Handlers : StartSpawn(h)
  \/ \E h \in Handlers, c \in env.chats : StopBegin(h, c)
  \/ \E h \in Handlers : StopResume(h)
  \/ \E c \in env.chats : SetVisa(c)
  \/ \E c \in env.chats : SetCity(c)
  \/ \E c \in env.chats : SetType(c)
  \/ \E c \in env.chats : SetYear(c)
  \/ \E c \in env.chats : SetInterval(c)
  \/ \E c \in env.chats : start_command(c)
  \/ \E c \in env.chats : status_command(c)
  \/ \E c \in env.chats : handle_callback_start_alerts(c)

Spec == Init /\ [][Next]_vars

(* The event loop runs every coroutine that is ready: a loop whose awaited
   send, fetch or sleep has returned or was cancelled is resumed, and so is a
   stop_command whose awaited task is done. *)
FairSpec ==
  /\ Spec
  /\ \A t \in Tasks : WF_vars(LoopStep(t))
  /\ \A h \in Handlers : WF_vars(StopResume(h))

----------------------------------------------------------------------------
(* One loop observed over its poll cycles: the subscriber has completed the
   wizard and start_alerts_command has just spawned and registered the loop;
   no further command arrives. *)

CompletePreferences ==
  {[NewPreferences EXCEPT !.visa_type = v, !.consulate_city = ci,
                          !.consulate_type = ty, !.year_filter = y,
                          !.interval = iv, !.no_slot_alert_sent = flag] :
     v \in VISA_TYPES, ci \in CITIES, ty \in CONSULATE_TYPES,
     y \in YEAR_FILTERS, iv \in INTERVALS, flag \in BOOLEAN}

InitCycles ==
  /\ env = [chats |-> {1}, pages |-> PagesDeep, cycles |-> MaxCycles,
            menu |-> MenuFull, log |-> TRUE, transport |-> FALSE]
  /\ \E p \in CompletePreferences : user_data = (1 :> p)
  /\ data_file = save_user_data(1 :> NewPreferences)
  /\ alert_tasks = set_alert_task([c \in Chats |-> 0], 1, 1)
  /\ tasks = [t \in Tasks |-> IF t = 1 THEN NewTask(1, user_data[1]) ELSE NoTask]
  /\ handlers = [h \in Handlers |-> NoHandler]
  /\ fetch = NoFetch
  /\ filtering = NoFiltering
  /\ sending = NoSending

CycleStep(t) ==
  \/ LoopStart(t)
  \/ LoopOpen(t)
  \/ LoopFetched(t)
  \/ LoopCycleRaised(t)
  \/ LoopErrorReported(t)
  \/ LoopNoticeSent(t)
  \/ LoopAlertSent(t)
  \/ LoopPaced(t)
  \/ LoopWake(t)

NextCycles == \E t \in Tasks : CycleStep(t)

CycleSpec == InitCycles /\ [][NextCycles]_vars

(* One loop observed over its poll cycles while upstream serves a long table:
   the subscriber's history is empty, or full from earlier monitoring. *)
FullHistory == [i \in 1 .. HistoryLimit |-> slot_key(RowN(i))]

InitDedup ==
  /\ env = [chats |-> {1}, pages |-> PagesDedup, cycles |-> MaxDedupCycles,
            menu |-> MenuBasic, log |-> TRUE, transport |-> FALSE]
  /\ \E h \in {<< >>, FullHistory} :
       user_data = (1 :> [NewPreferences EXCEPT
                            !.visa_type = sB1, !.consulate_city = sALL,
                            !.consulate_type = sVAC, !.interval = 60,
                            !.last_notified_slots = h])
  /\ data_file = save_user_data(1 :> NewPreferences)
  /\ alert_tasks = set_alert_task([c \in Chats |-> 0], 1, 1)
  /\ tasks = [t \in Tasks |-> IF t = 1 THEN NewTask(1, user_data[1]) ELSE NoTask]
  /\ handlers = [h \in Handlers |-> NoHandler]
  /\ fetch = NoFetch
  /\ filtering = NoFiltering
  /\ sending = NoSending

DedupSpec == InitDedup /\ [][NextCycles]_vars

----------------------------------------------------------------------------
(* The process over its restarts: what is on disk when it starts, first
   contacts and wizard buttons, a crash while the file is being written. *)

SavedPreferences ==
  [NewPreferences EXCEPT
     !.visa_type = sB1, !.consulate_city = sALL, !.consulate_type = sVAC,
     !.interval = 60, !.no_slot_alert_sent = TRUE,
     !.last_notified_slots = <<slot_key(Row_MumbaiVac)>>]

StoredValues == {to_dict(SavedPreferences), [visa_type |-> sB1], NotAnObject}

StoredFiles ==
  {NoFile, BrokenFile} \cup
  {[exists |-> TRUE, parses |-> TRUE, data |-> d] :
     d \in UNION {[S -> StoredValues] : S \in SUBSET Chats}}

InitPersist ==
  /\ env = [chats |-> Chats, pages |-> PagesBasic, cycles |-> 0, menu |-> MenuBasic,
            log |-> FALSE, transport |-> FALSE]
  /\ data_file \in StoredFiles
  /\ user_data = load_user_data(data_file)
  /\ alert_tasks = [c \in Chats |-> 0]
  /\ tasks = [t \in Tasks |-> NoTask]
  /\ handlers = [h \in Handlers |-> NoHandler]
  /\ fetch = NoFetch
  /\ filtering = NoFiltering
  /\ sending = NoSending

(* the process is started again: UserDataManager.__init__ loads the file; no
   task and no handler of the old process is left *)
Restart ==
  /\ user_data' = load_user_data(data_file)
  /\ alert_tasks' = [c \in Chats |-> 0]
  /\ tasks' = [t \in Tasks |-> NoTask]
  /\ handlers' = [h \in Handlers |-> NoHandler]
  /\ UNCHANGED <<data_file, env, fetch, filtering, sending>>

(* what a crash inside save_user_data leaves on disk: open(.., 'w') has
   emptied the file, json.dump has written none, some or all of the text *)
CrashedWrites(new_file) == {BrokenFile, new_file}

(* first contact of chat c; the process dies inside the write of the file
   and is started again *)
CrashInSave(c) ==
  /\ c \notin DOMAIN user_data
  /\ data_file' \in CrashedWrites(save_user_data(get_preferences(user_data, c)))
  /\ user_data' = load_user_data(data_file')
  /\ alert_tasks' = [k \in Chats |-> 0]
  /\ tasks' = [t \in Tasks |-> NoTask]
  /\ handlers' = [h \in Handlers |-> NoHandler]
  /\ UNCHANGED <<env, fetch, filtering, sending>>

NextPersist ==
  \/ \E c \in env.chats : SetVisa(c)
  \/ \E c \in env.chats : SetCity(c)
  \/ \E c \in env.chats : SetType(c)
  \/ \E c \in env.chats : SetYear(c)
  \/ \E c \in env.chats : SetInterval(c)
  \/ \E c \in env.chats : start_command(c)
  \/ \E c \in env.chats : status_command(c)
  \/ \E c \in env.chats : handle_callback_start_alerts(c)
  \/ Restart
  \/ \E c \in env.chats : CrashInSave(c)

PersistSpec == InitPersist /\ [][NextPersist]_vars

----------------------------------------------------------------------------
(* Calls of fetch_slots on an open session, whatever upstream answers *)

NextFetch == FetchCall \/ FetchAnswered \/ FetchBackedOff

FetchSpec == Init /\ [][NextFetch]_vars

(* every request is answered or times out (ClientTimeout), every sleep ends *)
FairFetchSpec ==
  /\ FetchSpec
  /\ WF_vars(FetchAnswered)
  /\ WF_vars(FetchBackedOff)

(* Calls of filter_slots on every list of rows and every complete record *)

NextFilter == FilterCall \/ FilterReturn \/ FilterDone

FilterSpec == Init /\ [][NextFilter]_vars

(* Two subscribers with complete records: their Start and Stop commands and
   their loops interleave *)

TwoSubscribers ==
  [c \in Chats |-> [NewPreferences EXCEPT
                      !.visa_type = sB1, !.consulate_city = sALL,
                      !.consulate_type = sVAC, !.interval = 60]]

InitTwo ==
  /\ env = [chats |-> Chats, pages |-> PagesBasic, cycles |-> 0, menu |-> MenuBasic,
            log |-> FALSE, transport |-> FALSE]
  /\ user_data = TwoSubscribers
  /\ data_file = save_user_data(TwoSubscribers)
  /\ alert_tasks = [c \in Chats |-> 0]
  /\ tasks = [t \in Tasks |-> NoTask]
  /\ handlers = [h \in Handlers |-> NoHandler]
  /\ fetch = NoFetch
  /\ filtering = NoFiltering
  /\ sending = NoSending

NextTwo ==
  \/ \E t \in Tasks : LoopStep(t)
  \/ \E h \in Handlers, c \in env.chats : StartBegin(h, c)
  \/ \E h \in Handlers : StartSpawn(h)
  \/ \E h \in Handlers, c \in env.chats : StopBegin(h, c)
  \/ \E h \in Handlers : StopResume(h)

TwoSpec == InitTwo /\ [][NextTwo]_vars

(* One loop observed over its cycles while Stop commands arrive *)

InitCancel ==
  /\ env = [chats |-> {1}, pages |-> {PageEmpty, PageTwoVac}, cycles |-> MaxCancelCycles,
            menu |-> MenuBasic, log |-> TRUE, transport |-> FALSE]
  /\ user_data = (1 :> [NewPreferences EXCEPT
                          !.visa_type = sB1, !.consulate_city = sALL,
                          !.consulate_type = sVAC, !.interval = 60])
  /\ data_file = save_user_data(1 :> NewPreferences)
  /\ alert_tasks = set_alert_task([c \in Chats |-> 0], 1, 1)
  /\ tasks = [t \in Tasks |-> IF t = 1 THEN NewTask(1, user_data[1]) ELSE NoTask]
  /\ handlers = [h \in Handlers |-> NoHandler]
  /\ fetch = NoFetch
  /\ filtering = NoFiltering
  /\ sending = NoSending

NextCancel ==
  \/ \E t \in Tasks : LoopStep(t)
  \/ \E h \in Handlers, c \in env.chats : StopBegin(h, c)
  \/ \E h \in Handlers : StopResume(h)

CancelSpec == InitCancel /\ [][NextCancel]_vars

(* One loop whose subscriber's record was loaded from a file in which the
   history is a list, null or an object (the file is plain JSON and
   from_dict validates nothing), while Stop commands arrive *)

StoredHistories == {<< >>, NoneList, EmptyDict}

InitFault ==
  /\ env = [chats |-> {1}, pages |-> {PageEmpty, PageTwoVac}, cycles |-> MaxFaultCycles,
            menu |-> MenuBasic, log |-> TRUE, transport |-> FALSE]
  /\ \E h \in StoredHistories, flag \in BOOLEAN :
       data_file = [exists |-> TRUE, parses |-> TRUE,
                    data |-> (1 :> to_dict([NewPreferences EXCEPT
                                              !.visa_type = sB1, !.consulate_city = sALL,
                                              !.consulate_type = sVAC, !.interval = 60,
                                              !.no_slot_alert_sent = flag,
                                              !.last_notified_slots = h]))]
  /\ user_data = load_user_data(data_file)
  /\ alert_tasks = set_alert_task([c \in Chats |-> 0], 1, 1)
  /\ tasks = [t \in Tasks |-> IF t = 1 THEN NewTask(1, user_data[1]) ELSE NoTask]
  /\ handlers = [h \in Handlers |-> NoHandler]
  /\ fetch = NoFetch
  /\ filtering = NoFiltering
  /\ sending = NoSending

FaultSpec == InitFault /\ [][NextCancel]_vars

(* One subscriber with a complete record over several runs of the loop:
   Start and Stop commands arrive while the loops' cycles are recorded *)

InitRuns ==
  /\ env = [chats |-> {1}, pages |-> {PageEmpty, PageTwoVac}, cycles |-> MaxRunCycles,
            menu |-> MenuBasic, log |-> TRUE, transport |-> FALSE]
  /\ user_data = (1 :> [NewPreferences EXCEPT
                          !.visa_type = sB1, !.consulate_city = sALL,
                          !.consulate_type = sVAC, !.interval = 60])
  /\ data_file = save_user_data(user_data)
  /\ alert_tasks = [c \in Chats |-> 0]
  /\ tasks = [t \in Tasks |-> NoTask]
  /\ handlers = [h \in Handlers |-> NoHandler]
  /\ fetch = NoFetch
  /\ filtering = NoFiltering
  /\ sending = NoSending

(* a Start arrives only when no other handler is suspended: no two Starts
   overlap and none overtakes a Stop that waits for its loop *)
NoHandlerSuspended == \A g \in Handlers : handlers[g].pc \in {"idle", "done"}

NextRuns ==
  \/ \E t \in Tasks : LoopStep(t)
  \/ \E h \in Handlers, c \in env.chats : NoHandlerSuspended /\ StartBegin(h, c)
  \/ \E h \in Handlers : StartSpawn(h)
  \/ \E h \in Handlers, c \in env.chats : StopBegin(h, c)
  \/ \E h \in Handlers : StopResume(h)

RunsSpec == InitRuns /\ [][NextRuns]_vars

(* One loop whose sends go through send_message, whatever the transport
   does to each delivery attempt *)

InitSend ==
  /\ env = [chats |-> {1}, pages |-> {PageEmpty, PageTwoVac}, cycles |-> MaxSendCycles,
            menu |-> MenuBasic, log |-> TRUE, transport |-> TRUE]
  /\ user_data = (1 :> [NewPreferences EXCEPT
                          !.visa_type = sB1, !.consulate_city = sALL,
                          !.consulate_type = sVAC, !.interval = 60])
  /\ data_file = save_user_data(1 :> NewPreferences)
  /\ alert_tasks = set_alert_task([c \in Chats |-> 0], 1, 1)
  /\ tasks = [t \in Tasks |-> IF t = 1 THEN NewTask(1, user_data[1]) ELSE NoTask]
  /\ handlers = [h \in Handlers |-> NoHandler]
  /\ fetch = NoFetch
  /\ filtering = NoFiltering
  /\ sending = NoSending

NextSend ==
  \/ \E t \in Tasks : LoopStep(t)
  \/ \E h \in Handlers, c \in env.chats : StopBegin(h, c)
  \/ \E h \in Handlers : StopResume(h)
  \/ SendCall
  \/ SendAttempted
  \/ SendSlept

SendSpec == InitSend /\ [][NextSend]_vars

----------------------------------------------------------------------------
(* Properties *)

Live(t) == tasks[t].pc \notin {"unused", "done"}

LiveLoops(c) == {t \in Tasks : tasks[t].chat = c /\ Live(t)}

(* handler h takes up a command of the given kind for chat c in this step *)
Begins(h, kind, c) ==
  /\ handlers[h].kind = "idle"
  /\ handlers'[h].kind = kind
  /\ handlers'[h].chat = c

Unset(p) ==
  \/ p.visa_type = None
  \/ p.consulate_city = None
  \/ p.consulate_type = None
  \/ p.interval = NoneInt

(* C1: whatever the interleaving of start_alerts_command invocations for one
   chat, there is at most one live (spawned, not completed) loop per chat. *)
C1_AtMostOneLiveLoop == \A c \in Chats : Cardinality(LiveLoops(c)) <= 1

StartedOnceNoStop(c) ==
  /\ Cardinality({g \in Handlers : handlers[g].kind = "start" /\ handlers[g].chat = c
                                   /\ handlers[g].result = "Started"}) = 1
  /\ \A g \in Handlers :
       /\ (handlers[g].kind = "start" /\ handlers[g].chat = c) => handlers[g].pc = "done"
       /\ ~(handlers[g].kind = "stop" /\ handlers[g].chat = c)

C2_SecondStartStep ==
  \A h \in Handlers, c \in Chats :
    (Begins(h, "start", c) /\ StartedOnceNoStop(c)) =>
      /\ handlers'[h].result = "AlreadyRunning"
      /\ handlers'[h].pc = "done"
      /\ tasks' = tasks
      /\ alert_tasks' = alert_tasks
      /\ Cardinality(LiveLoops(c)') = 1

(* C2: a Start issued when exactly one earlier Start for the chat has
   succeeded, every earlier Start has completed and no Stop was issued, is
   rejected as AlreadyRunning, spawns nothing and leaves exactly one loop
   running. *)
C2_SecondStartRejected == [][C2_SecondStartStep]_vars

C2_Witness ==
  \E g, h \in Handlers :
    /\ g < h
    /\ handlers[g].kind = "start" /\ handlers[g].result = "Started"
    /\ handlers[h].kind = "start" /\ handlers[h].result = "AlreadyRunning"
    /\ handlers[h].chat = handlers[g].chat
    /\ \A k \in Handlers : handlers[k].kind # "stop"
    /\ Cardinality(LiveLoops(handlers[g].chat)) = 1

C3_IncompleteStartStep ==
  \A h \in Handlers, c \in Chats :
    (Begins(h, "start", c) /\ (c \notin DOMAIN user_data \/ Unset(user_data[c]))) =>
      /\ handlers'[h].result = "PreferencesIncomplete"
      /\ handlers'[h].pc = "done"
      /\ tasks' = tasks
      /\ alert_tasks' = alert_tasks

C3_LoopsHaveCompleteRecord ==
  \A t \in Tasks :
    tasks[t].pc # "unused" =>
      /\ tasks[t].complete_at_start
      /\ tasks[t].chat \in DOMAIN user_data
      /\ ~Unset(user_data[tasks[t].chat])

(* C3: a Start for a chat whose record lacks any of visa type, city,
   consulate type or interval is rejected as PreferencesIncomplete and
   spawns nothing, registers nothing and opens no session; every loop ever
   spawned belongs to a record that was complete when it was spawned and is
   complete while the loop lives. *)
C3_NoStartWhenIncomplete ==
  [][C3_IncompleteStartStep]_vars /\ []C3_LoopsHaveCompleteRecord

C3_Witness ==
  \E h \in Handlers :
    /\ handlers[h].result = "PreferencesIncomplete"
    /\ handlers[h].chat \in DOMAIN user_data
    /\ user_data[handlers[h].chat].visa_type # None
    /\ user_data[handlers[h].chat].consulate_city # None
    /\ user_data[handlers[h].chat].consulate_type # None
    /\ user_data[handlers[h].chat].interval = NoneInt
    /\ \A t \in Tasks : tasks[t].pc = "unused"

C4_StopStep ==
  \A h \in Handlers :
    /\ \A c \in Chats :
         (Begins(h, "stop", c) /\ is_running(c)) =>
           /\ handlers'[h].pc = "await_task"
           /\ handlers'[h].task = alert_tasks[c]
           /\ tasks'[alert_tasks[c]].must_cancel
    /\ (handlers[h].pc = "await_task" /\ handlers'[h].pc # "await_task") =>
           /\ handlers'[h].result = "Stopped"
           /\ tasks'[handlers[h].task].pc = "done"
           /\ alert_tasks'[handlers[h].chat] = 0
           /\ ~is_running(handlers[h].chat)'

(* C4: a Stop that finds a running loop requests its cancellation and
   waits; in the step in which it returns, the loop it cancelled is
   completed, the registry holds no handle for the chat and IsRunning is
   false; and under fair scheduling every waiting Stop returns. *)
C4_StopWaitsForLoop ==
  /\ [][C4_StopStep]_vars
  /\ \A h \in Handlers : (handlers[h].pc = "await_task") ~> (handlers[h].result = "Stopped")

C4_Witness ==
  \E h \in Handlers :
    /\ handlers[h].kind = "stop"
    /\ handlers[h].result = "Stopped"
    /\ tasks[handlers[h].task].pc = "done"
    /\ tasks[handlers[h].task].session = "closed"

C5_StopNotRunningStep ==
  \A h \in Handlers, c \in Chats :
    (Begins(h, "stop", c)
       /\ (alert_tasks[c] = 0 \/ tasks[alert_tasks[c]].pc = "done")) =>
      /\ handlers'[h].result = "NotRunning"
      /\ handlers'[h].pc = "done"
      /\ alert_tasks' = alert_tasks
      /\ tasks' = tasks
      /\ user_data' = user_data
      /\ data_file' = data_file

(* C5: a Stop for a chat with no handle, or whose handle's loop is done,
   answers NotRunning and leaves the registry, every loop and every record
   (in memory and on disk) as they were. *)
C5_StopNotRunning == [][C5_StopNotRunningStep]_vars

C5_Witness ==
  \E g \in Handlers :
    /\ handlers[g].kind = "stop" /\ handlers[g].result = "NotRunning"
    /\ alert_tasks[handlers[g].chat] # 0
    /\ tasks[alert_tasks[handlers[g].chat]].pc = "done"

CycleSuccessors(pc) ==
  CASE pc = "polling" -> {"notice", "alert", "error_report", "sleeping"}
    [] pc = "notice" -> {"sleeping"}
    [] pc = "error_report" -> {"sleeping"}
    [] pc = "alert" -> {"pacing", "error_report"}
    [] pc = "pacing" -> {"alert", "sleeping"}
    [] pc = "sleeping" -> {"polling"}
    [] OTHER -> {}

C6_CycleStep ==
  \A t \in Tasks :
    (tasks[t].pc \in InTry /\ tasks'[t].pc # tasks[t].pc) =>
      IF tasks[t].must_cancel
      THEN tasks'[t].pc = "stopping"
      ELSE tasks'[t].pc \in CycleSuccessors(tasks[t].pc)

(* the recorded run of a loop is over when env.cycles cycles were recorded
   and the loop sleeps *)
RunRecorded(t) ==
  env.log /\ tasks[t].pc = "sleeping" /\ Len(tasks[t].log) >= env.cycles

C6_CanGoOn ==
  \A t \in Tasks :
    (tasks[t].pc \in InTry /\ ~RunRecorded(t)) => ENABLED LoopStep(t)

(* C6: a loop that was not cancelled never leaves its cycle: from Polling it
   goes to a send, an error report or Sleeping, an exception raised anywhere
   in the cycle body (before the page is looked at, after the flag reset,
   after an alert was sent) leads to the error report, every send, error
   report and pacing delay leads on to Sleeping, Sleeping leads to Polling,
   it can always take its next step, and it reaches its exit path only after
   a cancellation was requested. *)
C6_LoopEndsOnlyByCancel == [][C6_CycleStep]_vars /\ []C6_CanGoOn

C6_Witness ==
  \E t \in Tasks :
    LET log == tasks[t].log
    IN /\ tasks[t].pc = "sleeping"
       /\ ~tasks[t].must_cancel
       /\ tasks[t].session = "open"
       /\ alert_tasks[tasks[t].chat] = t
       /\ Prefs(t).last_notified_slots = EmptyDict
       /\ Len(log) = 2
       /\ log[1].kind = "nodata" /\ log[1].msgs = << >>
       /\ log[2].kind = "match"
       /\ log[2].msgs = <<SlotAlert(Row_ChennaiVac, TRUE), Notice("error")>>

C7_CompletionStep ==
  \A t \in Tasks :
    (tasks[t].pc \notin {"unused", "created", "done"} /\ tasks'[t].pc = "done") =>
      /\ tasks'[t].session # "open"
      /\ alert_tasks'[tasks[t].chat] # t

(* C7: when a loop that has begun to run is cancelled and completes,
   whatever state it was cancelled in (Starting included), its session is not
   open and the registry no longer holds its handle. *)
C7_LoopCleansUpOnCancel == [][C7_CompletionStep]_vars

----------------------------------------------------------------------------
(* Properties of one loop's poll cycles (CycleSpec) *)

RECURSIVE CountType(_, _)
CountType(msgs, types) ==
  IF msgs = << >> THEN 0
  ELSE (IF Head(msgs).type \in types THEN 1 ELSE 0) + CountType(Tail(msgs), types)

RECURSIVE CountInCycles(_, _, _, _)
CountInCycles(log, i, j, types) ==
  IF i > j THEN 0
  ELSE CountType(log[i].msgs, types) + CountInCycles(log, i + 1, j, types)

NoMatchBetween(log, i, j) == \A k \in i .. j : log[k].kind # "match"

LowValueNotices == {"no_fetch", "alternatives", "no_slots"}

(* C8: of two consecutive cycles with a fetched page and nothing matching
   and no alternative, the first of which starts with the flag false, the
   first sends exactly one "no slots" notice and the second none; a cycle
   with matching slots resets the flag, so that a "no slots" cycle right
   after it sends the notice again. *)
C8_NoSlotsGate ==
  \A t \in Tasks :
    LET log == tasks[t].log
    IN /\ \A i \in 1 .. Len(log) - 1 :
            /\ (log[i].kind = "none" /\ ~log[i].flag_before /\ log[i + 1].kind = "none") =>
                 /\ log[i].msgs = <<Notice("no_slots")>>
                 /\ log[i + 1].flag_before
                 /\ log[i + 1].msgs = << >>
            /\ log[i].kind = "match" =>
                 /\ ~log[i + 1].flag_before
                 /\ log[i + 1].kind = "none" => log[i + 1].msgs = <<Notice("no_slots")>>
       /\ tasks[t].pc \in {"alert", "pacing"} => ~Prefs(t).no_slot_alert_sent

C8_Witness ==
  \E t \in Tasks :
    LET log == tasks[t].log
    IN /\ Len(log) = 4
       /\ log[1].kind = "none" /\ ~log[1].flag_before
       /\ log[2].kind = "none"
       /\ log[3].kind = "match"
       /\ log[4].kind = "none"
       /\ CountInCycles(log, 1, 4, {"no_slots"}) = 2
       /\ tasks[t].pc = "sleeping"

(* the recorded cycles of a subscriber, loop after loop in the order in
   which the loops were spawned *)
RECURSIVE LogsUpTo(_, _)
LogsUpTo(c, n) ==
  IF n = 0 THEN << >>
  ELSE LogsUpTo(c, n - 1) \o (IF tasks[n].chat = c THEN tasks[n].log ELSE << >>)

SubscriberLog(c) == LogsUpTo(c, MaxTasks)

(* cycles whose matching list is empty: no data, only alternatives, nothing *)
EmptyMatchBetween(log, i, j) == \A k \in i .. j : log[k].kind \in {"nodata", "alts", "none"}

(* C9: over any stretch of consecutive poll cycles of one subscriber whose
   matching list is empty (no data, only alternatives, nothing available),
   whichever of the subscriber's loops runs them, at most one of the notices
   "could not fetch", alternatives summary and "no slots" is sent. *)
C9_OneNoticePerStreak ==
  \A c \in env.chats :
    LET log == SubscriberLog(c)
    IN \A i \in 1 .. Len(log) : \A j \in i .. Len(log) :
         EmptyMatchBetween(log, i, j) => CountInCycles(log, i, j, LowValueNotices) <= 1

(* C10: a cycle without matching slots but with alternatives that starts
   with the flag false sends exactly one alternatives summary and sets the
   flag; no later cycle sends a summary before a cycle with matching slots,
   whatever alternatives it finds. *)
C10_AlternativesOnce ==
  \A t \in Tasks :
    LET log == tasks[t].log
    IN \A i \in 1 .. Len(log) :
         (log[i].kind = "alts" /\ ~log[i].flag_before) =>
           /\ log[i].msgs = <<AlternativesSummary(log[i].other)>>
           /\ i < Len(log) => log[i + 1].flag_before
           /\ \A j \in i + 1 .. Len(log) :
                NoMatchBetween(log, i, j) =>
                  CountType(log[j].msgs, {"alternatives"}) = 0

C10_Witness ==
  \E t \in Tasks :
    LET log == tasks[t].log
    IN /\ Len(log) >= 2
       /\ log[1].kind = "alts" /\ ~log[1].flag_before
       /\ log[2].kind = "alts"
       /\ log[2].other # log[1].other
       /\ log[2].msgs = << >>
       /\ tasks[t].pc = "sleeping"

----------------------------------------------------------------------------
(* Properties of the dedup history (DedupSpec) *)

History(c) == user_data[c].last_notified_slots

(* the step appends the key of the alert just sent and keeps the newest
   HistoryLimit entries *)
C11_AppendStep ==
  \A c \in DOMAIN user_data :
    History(c)' # History(c) =>
      \E t \in Tasks :
        /\ tasks[t].chat = c
        /\ tasks[t].pc = "alert"
        /\ LET all == History(c) \o <<slot_key(Head(tasks[t].queue))>>
               n == Len(all)
               m == Len(History(c)')
           IN /\ m = (IF n > HistoryLimit THEN HistoryLimit ELSE n)
              /\ \A i \in 1 .. m : History(c)'[i] = all[n - m + i]

C11_Bounded == \A c \in DOMAIN user_data : Len(History(c)) <= HistoryLimit

(* C11: starting from a history of at most 50 keys, the history never holds
   more than 50 entries, and each change of it appends one key and keeps the
   most recent 50 entries of the previous history followed by that key. *)
C11_HistoryKeepsNewestFifty == []C11_Bounded /\ [][C11_AppendStep]_vars

C11_Witness ==
  /\ Len(History(1)) = HistoryLimit
  /\ History(1)[HistoryLimit] = slot_key(RowN(0))
  /\ History(1)[1] = slot_key(RowN(2))
  /\ \E t \in Tasks : tasks[t].pc = "pacing"

(* the alert whose send is awaited is framed new exactly when its key is not
   in the history; when the send returns, a new key is in the history and a
   repeat leaves the history as it was *)
C12_Framing ==
  \A t \in Tasks :
    tasks[t].pc = "alert" =>
      LET log == tasks[t].log
          sent == log[Len(log)].msgs[Len(log[Len(log)].msgs)]
      IN /\ sent.slot = Head(tasks[t].queue)
         /\ sent.is_new = tasks[t].is_new
         /\ sent.is_new = ~InSeq(slot_key(sent.slot), History(tasks[t].chat))

C12_AlertSentStep ==
  \A t \in Tasks :
    (tasks[t].pc = "alert" /\ tasks'[t].pc = "pacing") =>
      LET c == tasks[t].chat
          key == slot_key(Head(tasks[t].queue))
      IN IF tasks[t].is_new
         THEN InSeq(key, History(c)')
         ELSE History(c)' = History(c)

LastIndexOf(seq, x) ==
  CHOOSE i \in 1 .. Len(seq) : seq[i] = x /\ \A j \in i + 1 .. Len(seq) : seq[j] # x

NewAlertsBefore(msgs, k) == CountType(SelectSeq(SubSeq(msgs, 1, k - 1), LAMBDA m : m.is_new),
                                      {"slot_alert"})

(* the key of the k-th alert of a cycle was in the history when the cycle
   began and the new keys appended before it in the cycle did not evict it *)
StillRemembered(rec, k) ==
  LET key == slot_key(rec.msgs[k].slot)
      hb == rec.history_before
  IN /\ InSeq(key, hb)
     /\ Len(hb) + NewAlertsBefore(rec.msgs, k) - HistoryLimit < LastIndexOf(hb, key)

C12_RepeatWhileRemembered ==
  \A t \in Tasks :
    LET log == tasks[t].log
    IN \A i \in 1 .. Len(log) - 1 :
         \A k \in 1 .. Len(log[i + 1].msgs) :
           (/\ log[i + 1].kind = "match"
            /\ InSeq(log[i + 1].msgs[k].slot, log[i].matching)
            /\ StillRemembered(log[i + 1], k)) => ~log[i + 1].msgs[k].is_new

(* C12 (amended): an alert is framed new exactly when its key
   location_earliestDate is not in the history, and then the key is in the
   history once the alert is sent; a repeat leaves the history unchanged; a
   slot matching again in the next cycle is framed repeat provided its key
   has not been evicted by newer keys in between. *)
C12_NewThenRepeatWhileRemembered ==
  /\ []C12_Framing
  /\ [][C12_AlertSentStep]_vars
  /\ []C12_RepeatWhileRemembered

C12_Witness ==
  \E t \in Tasks :
    LET log == tasks[t].log
    IN /\ Len(log) = 2
       /\ log[1].history_before = << >>
       /\ log[1].page = PageOne /\ log[1].msgs = <<SlotAlert(RowN(0), TRUE)>>
       /\ log[2].page = PageOne /\ log[2].msgs = <<SlotAlert(RowN(0), FALSE)>>
       /\ tasks[t].pc = "pacing"
       /\ History(1) = <<slot_key(RowN(0))>>

C12_RepeatNextCycle ==
  \A t \in Tasks :
    LET log == tasks[t].log
    IN \A i \in 1 .. Len(log) - 1 :
         \A k \in 1 .. Len(log[i + 1].msgs) :
           (/\ log[i + 1].kind = "match"
            /\ InSeq(log[i + 1].msgs[k].slot, log[i].matching)) => ~log[i + 1].msgs[k].is_new

(* C12 as stated: a slot matching again in the next cycle is always framed
   repeat. *)
C12_NewThenRepeat ==
  /\ []C12_Framing
  /\ [][C12_AlertSentStep]_vars
  /\ []C12_RepeatNextCycle

(* all slot alerts of a loop's cycles, in the order in which they were sent *)
RECURSIVE AlertsIn(_)
AlertsIn(log) ==
  IF log = << >> THEN << >>
  ELSE AlertsIn(SubSeq(log, 1, Len(log) - 1))
       \o SelectSeq(log[Len(log)].msgs, LAMBDA m : m.type = "slot_alert")

(* C13: over all poll cycles of one subscriber, whichever of the
   subscriber's loops runs them, each key is framed as new in at most one
   alert: every alert for a key after the one framed as new is framed as
   repeat. *)
C13_NewAtMostOnce ==
  \A c \in env.chats :
    LET alerts == AlertsIn(SubscriberLog(c))
    IN \A b \in 1 .. Len(alerts) : \A a \in 1 .. b - 1 :
         (/\ alerts[a].is_new
          /\ slot_key(alerts[a].slot) = slot_key(alerts[b].slot)) => ~alerts[b].is_new

----------------------------------------------------------------------------
(* Alerts of one cycle (CycleSpec) *)

RECURSIVE IsSubsequence(_, _)
IsSubsequence(a, b) ==
  IF a = << >> THEN TRUE
  ELSE IF b = << >> THEN FALSE
  ELSE IF Head(a) = Head(b) THEN IsSubsequence(Tail(a), Tail(b))
  ELSE IsSubsequence(a, Tail(b))

Wanted(slot, p) ==
  /\ visa_matches_site(p.visa_type, slot.visa_type)
  /\ InPreferredBucket(slot, p)
  /\ is_available(slot)
  /\ year_matches(slot.earliest_date, p.year_filter)

CycleOver(t, i) == i < Len(tasks[t].log) \/ tasks[t].pc = "sleeping"

(* C14: in every completed cycle whose matching list is not empty, the
   alerts sent are exactly one per matching slot, in the order of the rows of
   the fetched page, repeats included; the matching slots are the wanted rows
   of the page in page order. *)
C14_OneAlertPerMatchInRowOrder ==
  \A t \in Tasks :
    LET log == tasks[t].log
    IN \A i \in 1 .. Len(log) :
         LET rec == log[i]
             wanted == {k \in 1 .. Len(rec.page) : Wanted(rec.page[k], Prefs(t))}
         IN /\ (rec.kind = "match") = (wanted # {} /\ rec.kind # "error")
            /\ (rec.kind = "match" /\ CycleOver(t, i)) =>
                 /\ Len(rec.msgs) = Cardinality(wanted)
                 /\ IsSubsequence(rec.matching, rec.page)
                 /\ \A k \in 1 .. Len(rec.msgs) :
                      /\ rec.msgs[k].type = "slot_alert"
                      /\ rec.msgs[k].slot = rec.matching[k]
                      /\ Wanted(rec.msgs[k].slot, Prefs(t))
            /\ rec.kind # "match" => CountType(rec.msgs, {"slot_alert"}) = 0

C14_Witness ==
  \E t \in Tasks :
    LET log == tasks[t].log
    IN /\ Len(log) = 2
       /\ tasks[t].pc = "sleeping"
       /\ log[1].msgs = <<SlotAlert(Row_MumbaiVac, TRUE)>>
       /\ log[2].page = PageTwoVac
       /\ log[2].msgs = <<SlotAlert(Row_ChennaiVac, TRUE), SlotAlert(Row_MumbaiVac, FALSE)>>

----------------------------------------------------------------------------
(* Properties of the durable store *)

(* C15: the dedup state a restart would load (history and flag) is the
   dedup state in memory, for every record, at all times. *)
C15_DedupStateDurable ==
  \A c \in DOMAIN user_data :
    LET stored == load_user_data(data_file)
    IN /\ c \in DOMAIN stored
       /\ stored[c].last_notified_slots = user_data[c].last_notified_slots
       /\ stored[c].no_slot_alert_sent = user_data[c].no_slot_alert_sent

C16_CrashStep ==
  \A c \in Chats :
    CrashInSave(c) =>
      \/ load_user_data(data_file') = load_user_data(data_file)
      \/ load_user_data(data_file') = get_preferences(user_data, c)

(* C16: after a crash during a write, the file loads as the complete
   previous state or as the complete new state. *)
C16_CrashKeepsOldOrNew == [][C16_CrashStep]_vars

C17_RestartStep ==
  Restart =>
    \A c \in DOMAIN data_file.data :
      (data_file.parses /\ IsObject(data_file.data[c])) =>
        /\ c \in DOMAIN user_data'
        /\ user_data'[c] = from_dict(data_file.data[c])

C17_ValidRecordsInMemory ==
  \A c \in DOMAIN data_file.data :
    (data_file.exists /\ data_file.parses /\ IsObject(data_file.data[c])) =>
      c \in DOMAIN user_data

(* C17: a load keeps every valid record of the file, whatever else the file
   holds: every valid record on disk has its record in memory, from the first
   load on, and a restart reads each of them as from_dict gives it. *)
C17_LoadKeepsValidRecords == []C17_ValidRecordsInMemory /\ [][C17_RestartStep]_vars

----------------------------------------------------------------------------
(* fetch_slots: retries *)

Answer(i) == fetch.answers[i]

Returned == fetch.pc = "returned"

(* the failures the retry is for: timeout, connection error, a status other
   than 200/403/429, a body shorter than MinHtmlLength *)
Transient(o) ==
  \/ o.kind \in {"timeout", "client_error"}
  \/ o.kind = "response" /\ o.status \notin {200, 403, 429}
  \/ o.kind = "response" /\ o.status = 200 /\ o.html.length < MinHtmlLength

ValidPage(o) ==
  /\ o.kind = "response"
  /\ o.status = 200
  /\ o.html.length >= MinHtmlLength
  /\ _parse_html(o.html) # << >>

(* C18: a transient failure of attempt k < 3 (timeout, connection error,
   status other than 200/403/429, too-short body) does not end the call; when
   the next request is answered with a valid 200 page the call returns that
   page's parsed rows; and the empty result is returned only after three
   requests, the third of which did not bring a valid page.  fetch_slots does
   not satisfy this: it never sends a second request. *)
C18_RetriesTransientFailures ==
  /\ \A i \in 1 .. Len(fetch.answers) :
       (i < MAX_RETRIES /\ Transient(Answer(i)) /\ Returned) => Len(fetch.answers) > i
  /\ \A i \in 1 .. Len(fetch.answers) - 1 :
       (Transient(Answer(i)) /\ ValidPage(Answer(i + 1)))
         => /\ Returned
            /\ Len(fetch.answers) = i + 1
            /\ fetch.result = _parse_html(Answer(i + 1).html)
            /\ fetch.result # << >>
  /\ (Returned /\ fetch.result = << >>)
       => /\ Len(fetch.answers) = MAX_RETRIES
          /\ ~ValidPage(Answer(MAX_RETRIES))

----------------------------------------------------------------------------
(* fetch_slots: rate limiting *)

RateLimited(o) == o.kind = "response" /\ o.status = 429

OtherAnswers == {i \in 1 .. Len(fetch.answers) : ~RateLimited(Answer(i))}

(* C19: a 429 answer does not use up one of the three attempts: the call
   never returns on a 429 (the request is sent again after the wait), the
   wait is the Retry-After value or 60 seconds when the header is absent, and
   the call returns the empty result only when three answers other than 429
   have failed.  fetch_slots does not satisfy this. *)
C19_RateLimitNotCounted ==
  /\ (fetch.answers # << >> /\ RateLimited(Answer(Len(fetch.answers)))) => ~Returned
  /\ (Returned /\ fetch.result = << >>) => Cardinality(OtherAnswers) >= MAX_RETRIES

----------------------------------------------------------------------------
(* fetch_slots: what the loop gets back *)

(* attempt i brought no rows: the request raised, the status was not 200, the
   body was too short to be parsed on this attempt, or it parsed to no row *)
FailedAt(i) ==
  \/ Answer(i).kind # "response"
  \/ Answer(i).status # 200
  \/ Answer(i).html.length < MinHtmlLength /\ i < MAX_RETRIES
  \/ _parse_html(Answer(i).html) = << >>

Blocked(o) == o.kind = "response" /\ o.status = 403

IsSlotList(list) ==
  \A i \in 1 .. Len(list) :
    DOMAIN list[i] = {"location", "visa_type", "last_updated", "earliest_date",
                      "slots_available"}

(* C20: fetch_slots never lets an error out: whatever upstream answers
   (403, 429, other status, too-short body, timeout, connection error, other
   exception, page without tables or rows) the call is running or has
   returned a list of slots; the list is empty when every attempt failed, and
   403 on every request gives the empty list. *)
C20_FetchReturnsListNeverError ==
  /\ fetch.pc \in {"idle", "request", "backoff", "returned"}
  /\ Returned =>
       /\ IsSlotList(fetch.result)
       /\ (\A i \in 1 .. Len(fetch.answers) : FailedAt(i)) => fetch.result = << >>
       /\ (\A i \in 1 .. Len(fetch.answers) : Blocked(Answer(i)))
            => fetch.result = << >>
       /\ fetch.result # << >>
            => fetch.result = _parse_html(Answer(Len(fetch.answers)).html)

(* 403 on the request: the long wait, then the two iterations that fail
   on the unbound name, one of them with its sleep, and the empty list *)
C20_Witness ==
  /\ Returned
  /\ fetch.answers = <<Response(403, None, NoHtml)>>
  /\ fetch.attempt = MAX_RETRIES - 1
  /\ fetch.slept = <<30, 10>>
  /\ fetch.result = << >>

----------------------------------------------------------------------------
(* filter_slots: the partition *)

Count(x, seq) == Cardinality({i \in 1 .. Len(seq) : seq[i] = x})

(* the compatibility of a subscriber's visa type and a site label: the
   mapping table where it has an entry, else equality of the two trimmed,
   upper-cased texts *)
Compatible(user_pref, site_visa) ==
  LET label == Strip(Upper(site_visa))
  IN CASE user_pref = sB1 -> label \in {sB1, sB1B2}
       [] user_pref = sB1B2 -> label = sB1B2
       [] user_pref = sH_1B -> label \in {sH1B, sH_1B, <<"H","1">>, <<"H","-","1">>}
       [] OTHER -> label = Strip(Upper(user_pref))

Filtered == filtering.pc \in {"bucketed", "returned"}

(* C21: before the availability filter every input slot whose visa type is
   compatible with the subscriber's is in exactly one of the two buckets (as
   often as it is in the input, in input order), and a slot whose visa type
   is not compatible is in neither bucket and in neither returned list. *)
C21_FilterPartitionsInput ==
  Filtered =>
    LET p == filtering.preferences
        m == filtering.matching_preference
        o == filtering.other_locations
    IN /\ \A i \in 1 .. Len(filtering.all_slots) :
            LET slot == filtering.all_slots[i]
            IN IF Compatible(p.visa_type, slot.visa_type)
               THEN /\ Count(slot, m) + Count(slot, o) = Count(slot, filtering.all_slots)
                    /\ ~(InSeq(slot, m) /\ InSeq(slot, o))
               ELSE /\ ~InSeq(slot, m) /\ ~InSeq(slot, o)
                    /\ ~InSeq(slot, filtering.matching_open)
                    /\ ~InSeq(slot, filtering.other_open)
       /\ Len(m) + Len(o) <= Len(filtering.all_slots)
       /\ IsSubsequence(m, filtering.all_slots)
       /\ IsSubsequence(o, filtering.all_slots)

(* a compatible row in each bucket and an incompatible row dropped *)
C21_Witness ==
  /\ filtering.pc = "returned"
  /\ filtering.all_slots = <<Row_MumbaiVac, Row_OtherVisa, Row_MumbaiConsular>>
  /\ filtering.preferences.visa_type = sB1B2
  /\ filtering.preferences.consulate_city = sALL
  /\ filtering.preferences.consulate_type = sCONSULAR
  /\ filtering.matching_preference = <<Row_MumbaiConsular>>
  /\ filtering.other_locations = <<Row_MumbaiVac>>

----------------------------------------------------------------------------
(* filter_slots: the location buckets *)

(* the subscriber's preferred locations: with the city ALL every location
   that ends with the consulate type, else the one location "city type" *)
PreferredLocation(location, p) ==
  IF p.consulate_city = sALL
  THEN /\ Len(location) >= Len(p.consulate_type)
       /\ \A k \in 1 .. Len(p.consulate_type) :
            location[Len(location) - Len(p.consulate_type) + k] = p.consulate_type[k]
  ELSE location = p.consulate_city \o <<" ">> \o p.consulate_type

(* C22: a visa-compatible slot is in the matching bucket iff its location is
   preferred (city ALL: the location ends with the consulate type; a chosen
   city: the location is exactly "city type"), and every other
   visa-compatible slot is in the alternatives bucket. *)
C22_LocationBuckets ==
  Filtered =>
    LET p == filtering.preferences
    IN \A i \in 1 .. Len(filtering.all_slots) :
         LET slot == filtering.all_slots[i]
         IN Compatible(p.visa_type, slot.visa_type) =>
              /\ InSeq(slot, filtering.matching_preference)
                   <=> PreferredLocation(slot.location, p)
              /\ InSeq(slot, filtering.other_locations)
                   <=> ~PreferredLocation(slot.location, p)

(* MUMBAI VAC chosen: the MUMBAI VAC row matches, CHENNAI VAC and MUMBAI
   CONSULAR are alternatives *)
C22_Witness ==
  /\ filtering.pc = "returned"
  /\ filtering.all_slots = <<Row_ChennaiVac, Row_MumbaiVac, Row_MumbaiConsular>>
  /\ filtering.preferences.visa_type = sB1
  /\ filtering.preferences.consulate_city = sMUMBAI
  /\ filtering.preferences.consulate_type = sVAC
  /\ filtering.matching_preference = <<Row_MumbaiVac>>
  /\ filtering.other_locations = <<Row_ChennaiVac, Row_MumbaiConsular>>

----------------------------------------------------------------------------
(* filter_slots: availability and year *)

YearFilterSet(p) == p.year_filter # NoneList /\ p.year_filter # << >>

YearOk(slot, p) ==
  YearFilterSet(p) =>
    \E k \in 1 .. Len(p.year_filter) : Contains(slot.earliest_date, p.year_filter[k])

(* available, with "N/A" and "" as the only dates that mean none *)
AvailableTwoSentinels(slot) ==
  slot.slots_available # <<"0">> /\ slot.earliest_date \notin {<< >>, sNA}

(* available, with "No Appointments Available" meaning none as well *)
AvailableThreeSentinels(slot) ==
  AvailableTwoSentinels(slot) /\ slot.earliest_date # sNoAppointments

Survivors(bucket, open, Available(_), p) ==
  /\ IsSubsequence(open, bucket)
  /\ \A i \in 1 .. Len(bucket) :
       InSeq(bucket[i], open) <=> (Available(bucket[i]) /\ YearOk(bucket[i], p))
  /\ \A i \in 1 .. Len(bucket) :
       InSeq(bucket[i], open) => Count(bucket[i], open) = Count(bucket[i], bucket)

(* C23, as amended: both returned lists hold exactly the slots of their
   bucket that are available (slots_available is not "0" and earliest_date is
   none of "", "N/A", "No Appointments Available") and, when a year filter is
   set, whose earliest_date contains one of its years; the rule is the same
   for both buckets. *)
C23_OpenSlotsSurvive ==
  filtering.pc = "returned" =>
    /\ Survivors(filtering.matching_preference, filtering.matching_open,
                 AvailableThreeSentinels, filtering.preferences)
    /\ Survivors(filtering.other_locations, filtering.other_open,
                 AvailableThreeSentinels, filtering.preferences)

(* a row dated "No Appointments Available" and a row with "0" slots are
   dropped from the matching bucket, the open row is kept *)
C23_Witness ==
  /\ filtering.pc = "returned"
  /\ filtering.all_slots = <<Row_NoAppointments, Row_MumbaiVac, Row_ZeroLeft>>
  /\ filtering.preferences.visa_type = sB1
  /\ filtering.preferences.consulate_city = sALL
  /\ filtering.preferences.consulate_type = sVAC
  /\ filtering.preferences.year_filter = NoneList
  /\ filtering.matching_preference = filtering.all_slots
  /\ filtering.matching_open = <<Row_MumbaiVac>>

(* C23, as stated: the same with available meaning only that
   slots_available is not "0" and earliest_date is neither "" nor "N/A", so
   that every bucketed slot with these properties would be returned. *)
C23_OpenSlotsSurviveTwoSentinels ==
  filtering.pc = "returned" =>
    /\ Survivors(filtering.matching_preference, filtering.matching_open,
                 AvailableTwoSentinels, filtering.preferences)
    /\ Survivors(filtering.other_locations, filtering.other_open,
                 AvailableTwoSentinels, filtering.preferences)

----------------------------------------------------------------------------
(* send_message: what the loop gets back *)

LastOutcome == sending.outcomes[Len(sending.outcomes)]

C24_SendReturnsBoolean ==
  /\ sending.pc \in {"idle", "attempt", "sleep", "returned"}
  /\ sending.pc = "returned" =>
       /\ sending.result \in BOOLEAN
       /\ sending.result <=> LastOutcome.kind = "ok"
       /\ \A i \in 1 .. Len(sending.outcomes) - 1 : sending.outcomes[i].kind # "ok"

(* where the loop goes on when the send it waits for has returned *)
AfterSend(pc) ==
  CASE pc = "starting" -> "polling"
    [] pc = "alert" -> "pacing"
    [] pc = "stopping" -> "closing"
    [] OTHER -> "sleeping"

C24_FailedSendStep ==
  \A t \in Tasks :
    (tasks[t].pc \in SendingPcs /\ sending.pc = "returned" /\ ~sending.result
       /\ ~tasks[t].must_cancel /\ ~tasks'[t].must_cancel
       /\ tasks'[t] # tasks[t])
      => /\ tasks'[t].pc = AfterSend(tasks[t].pc)
         /\ tasks'[t].queue = tasks[t].queue

(* C24: send_message never raises to its caller, whatever the transport does
   to its delivery attempts (RetryAfter, TimedOut, another TelegramError, any
   other exception): it returns True when a delivery attempt succeeded and
   False when it gives up; and after a False the loop goes on as after a
   True: the cycle's next alert is paced and sent, the loop sleeps and polls
   again. *)
C24_SendNeverRaises == []C24_SendReturnsBoolean /\ [][C24_FailedSendStep]_vars

(* two sends have returned False, the second of them the first alert of a
   cycle, and the loop is sending that cycle's second alert *)
C24_Witness ==
  /\ sending.failures >= 2
  /\ tasks[1].pc = "alert"
  /\ tasks[1].queue = <<Row_MumbaiVac>>
  /\ Len(tasks[1].log) = 1
  /\ sending.pc = "returned"
  /\ sending.outcomes = <<Transport("timed_out", 0), Transport("telegram_error", 0),
                          Transport("error", 0)>>
  /\ sending.slept = <<RETRY_DELAY, RETRY_DELAY>>
  /\ ~sending.result

----------------------------------------------------------------------------
(* send_message: rate limiting *)

(* C25: whenever the transport answers a delivery attempt with "retry after
   N seconds", on whichever attempt, send_message sleeps N seconds and then
   makes one more delivery attempt: it is sleeping N seconds or making that
   attempt, and has not returned.  send_message does not satisfy this. *)
C25_RetryAfterRetried ==
  (sending.outcomes # << >> /\ LastOutcome.kind = "retry_after")
    => /\ sending.pc \in {"sleep", "attempt"}
       /\ sending.slept # << >>
       /\ sending.slept[Len(sending.slept)] = LastOutcome.retry_after

----------------------------------------------------------------------------
(* Two subscribers *)

LoopsOf(c) == {t \in Tasks : tasks[t].chat = c}

(* the step leaves subscriber b's record, handle and loops as they are *)
Untouched(b) ==
  /\ user_data'[b] = user_data[b]
  /\ alert_tasks'[b] = alert_tasks[b]
  /\ \A t \in LoopsOf(b) : tasks'[t] = tasks[t]

(* the step is a step of subscriber a: of a Start or Stop command of a, or
   of a loop of a *)
StepOf(a) ==
  \/ \E h \in Handlers : StartBegin(h, a) \/ StopBegin(h, a)
  \/ \E h \in Handlers : handlers[h].chat = a /\ (StartSpawn(h) \/ StopResume(h))
  \/ \E t \in LoopsOf(a) : LoopStep(t)

C26_IsolatedStep ==
  \A a \in Chats : \A b \in Chats \ {a} : StepOf(a) => Untouched(b)

(* C26: for subscribers A # B, every step of Start(A), of Stop(A) and of A's
   loop leaves B's preference record (history and flag included), B's
   registry handle and B's loops unchanged. *)
C26_SubscribersIsolated == [][C26_IsolatedStep]_vars

(* subscriber 1 was started and stopped while subscriber 2's loop, which has
   set its own flag, is still registered and sleeping *)
C26_Witness ==
  /\ \E h \in Handlers : handlers[h].chat = 1 /\ handlers[h].result = "Stopped"
  /\ alert_tasks[1] = 0
  /\ \A t \in LoopsOf(1) : tasks[t].pc = "done"
  /\ LoopsOf(1) # {}
  /\ alert_tasks[2] # 0
  /\ tasks[alert_tasks[2]].chat = 2
  /\ tasks[alert_tasks[2]].pc = "sleeping"
  /\ user_data[2].no_slot_alert_sent
  /\ ~user_data[1].no_slot_alert_sent

----------------------------------------------------------------------------
(* Cycles without a matching slot *)

(* the cycle's matching list is empty: fetch_slots returned no data, or no
   row of the page is a wanted, open slot *)
EmptyMatching(rec, p) ==
  /\ rec.kind # "error"
  /\ rec.page = << >> \/ filter_slots(rec.page, p).matching_open = << >>

C27_QuietCycle ==
  \A t \in Tasks :
    LET log == tasks[t].log
    IN \A i \in 1 .. Len(log) :
         EmptyMatching(log[i], Prefs(t)) =>
           /\ log[i].kind \in {"nodata", "alts", "none"}
           /\ \A k \in 1 .. Len(log[i].msgs) : log[i].msgs[k].type # "slot_alert"
           /\ IF i < Len(log)
              THEN log[i + 1].kind # "error"
                     => log[i + 1].history_before = log[i].history_before
              ELSE Prefs(t).last_notified_slots = log[i].history_before

(* a step of such a cycle changes nothing of the record but the flag *)
C27_QuietStep ==
  \A t \in Tasks :
    LET log == tasks'[t].log
        c == tasks[t].chat
    IN (log # << >> /\ EmptyMatching(log[Len(log)], user_data'[c]))
         => [user_data'[c] EXCEPT !.no_slot_alert_sent = user_data[c].no_slot_alert_sent]
              = user_data[c]

(* C27: a poll cycle whose matching list is empty (no data, only
   alternatives, nothing available) sends no slot alert, leaves the history
   of notified keys as it was at the start of the cycle and changes nothing
   of the record but no_slot_alert_sent. *)
C27_EmptyMatchingKeepsHistory == []C27_QuietCycle /\ [][C27_QuietStep]_vars

(* after a cycle that alerted and remembered a key, a cycle with
   alternatives only has sent its summary and set the flag; the history is
   the one the first cycle left *)
C27_Witness ==
  \E t \in Tasks :
    LET log == tasks[t].log
    IN /\ Len(log) = 2
       /\ tasks[t].pc = "sleeping"
       /\ log[1].kind = "match"
       /\ log[2].kind = "alts"
       /\ log[2].msgs # << >>
       /\ log[2].history_before # << >>
       /\ Prefs(t).last_notified_slots = log[2].history_before
       /\ Prefs(t).no_slot_alert_sent

----------------------------------------------------------------------------
(* The order of send, remember and pace within a cycle *)

KeysOfNew(msgs) ==
  LET new == SelectSeq(msgs, LAMBDA m : m.type = "slot_alert" /\ m.is_new)
  IN [k \in 1 .. Len(new) |-> slot_key(new[k].slot)]

(* the alerts of the cycles up to cycle i *)
AlertsUpTo(log, i) == AlertsIn(SubSeq(log, 1, i))

(* the sends so far follow the matching list, one slot after the other; the
   history holds the keys of the sends that were new, in the order of the
   sends, and of the send in progress (or cancelled) not yet the key *)
C28_Sequential ==
  \A t \in Tasks :
    LET log == tasks[t].log
        c == tasks[t].chat
    IN log # << >> =>
         LET rec == log[Len(log)]
             sent == AlertsIn(log)
             done == SubSeq(sent, 1, Len(sent) - 1)
         IN /\ rec.kind = "match" =>
                 /\ Len(rec.msgs) >= 1 /\ Len(rec.msgs) <= Len(rec.matching)
                 /\ \A k \in 1 .. Len(rec.msgs) : rec.msgs[k].slot = rec.matching[k]
            /\ \A k \in 1 .. Len(History(c)) :
                 \E j \in 1 .. Len(sent) : slot_key(sent[j].slot) = History(c)[k]
            /\ \/ History(c) = KeysOfNew(sent)
               \/ /\ History(c) = KeysOfNew(done)
                  /\ rec.kind = "match"
                  /\ tasks[t].pc \in {"alert", "stopping", "closing", "done"}
            /\ (tasks[t].pc = "alert") => History(c) = KeysOfNew(done)
            /\ (tasks[t].pc = "pacing") => History(c) = KeysOfNew(sent)

(* the key is added by the step that follows the send, which leads to the
   pacing delay; the next alert starts only after the pacing delay; a
   cancellation during a send adds no key, and no key is added once the loop
   is cancelled *)
C28_Step ==
  \A t \in Tasks :
    LET c == tasks[t].chat
    IN /\ (c \in DOMAIN user_data /\ History(c)' # History(c))
            => tasks[t].pc = "alert" /\ tasks'[t].pc = "pacing"
       /\ (tasks'[t].pc = "pacing" /\ tasks[t].pc # "pacing") => tasks[t].pc = "alert"
       /\ (tasks'[t].pc = "alert" /\ tasks[t].pc # "alert")
            => tasks[t].pc \in {"polling", "pacing"}
       /\ (tasks[t].pc = "alert" /\ tasks'[t].pc = "stopping")
            => History(c)' = History(c)
       /\ (tasks[t].pc \in {"stopping", "closing", "done"})
            => History(c)' = History(c)

(* C28: within a cycle with matching slots the slots are handled one after
   the other in list order, each by: the alert send completes, the key is
   added to the history if new, the pacing delay; so a key is in the history
   only if a send for it was attempted, and when the loop is cancelled during
   a slot's send the key of that slot and of all later slots is not added in
   that cycle. *)
C28_SendThenRememberThenPace == []C28_Sequential /\ [][C28_Step]_vars

(* the loop was cancelled during the send of the second of two new matching
   slots: both alerts were attempted, only the first key is remembered *)
C28_Witness ==
  /\ tasks[1].pc = "done"
  /\ Len(tasks[1].log) = 1
  /\ tasks[1].log[1].matching = PageTwoVac
  /\ Len(tasks[1].log[1].msgs) = 2
  /\ History(1) = <<slot_key(Row_ChennaiVac)>>

----------------------------------------------------------------------------
(* The registry and the running loops *)

(* the loop is running: spawned, and neither completed nor in its cleanup *)
Running(t) == tasks[t].pc \in {"created", "starting"} \cup InTry

C29_RunningLoopsRegistered ==
  \A t \in Tasks : Running(t) => alert_tasks[tasks[t].chat] = t

(* a handle is taken out of the registry only when the loop it refers to
   has completed or is in its own cleanup *)
C29_RemovalStep ==
  \A c \in Chats :
    (alert_tasks[c] # 0 /\ alert_tasks'[c] = 0)
      => tasks[alert_tasks[c]].pc \in {"stopping", "done"}

(* C29: for every interleaving of Start commands, Stop commands and loop
   terminations every running loop is the one the registry holds for its
   subscriber, and neither Stop nor a terminating loop removes the handle of
   a different, newer loop.  The handlers and the loop do not satisfy this. *)
C29_RegistryHoldsEveryRunningLoop ==
  []C29_RunningLoopsRegistered /\ [][C29_RemovalStep]_vars

----------------------------------------------------------------------------
(* Termination of fetch_slots *)

(* the HTTP requests the call has issued so far *)
Requests == Len(fetch.answers) + (IF fetch.pc = "request" THEN 1 ELSE 0)

C30_AtMostThreeRequests == Requests <= MAX_RETRIES

C30_CallReturns == (fetch.pc # "idle") ~> Returned

(* C30: every call of fetch_slots terminates, whatever upstream answers, after
   at most three HTTP requests, the 403, 429 and failed ones included *)
C30_FetchTerminatesWithinThreeRequests ==
  []C30_AtMostThreeRequests /\ C30_CallReturns

(* a rate-limited call that went through all three iterations of the loop
   and returned: the wait asked for, then the sleep of the second iteration *)
C30_Witness ==
  /\ Returned
  /\ fetch.answers = <<Response(429, <<"1","_","0">>, NoHtml)>>
  /\ fetch.attempt = MAX_RETRIES - 1
  /\ fetch.slept = <<10, 10>>
  /\ Requests = 1

====
